---- MODULE Spec2Model ----
(***************************************************************************)
(* Model of the truckersmp-cli game launcher: the Proton starter, the Wine *)
(* starter and the Steam Runtime helper script.                            *)
(*                                                                         *)
(* A path is a sequence of path components and an argument vector is a     *)
(* sequence of tokens; a token is itself a sequence of strings (a literal  *)
(* such as "--" is the one-component token <<"--">>), so os.path.join is   *)
(* concatenation of components.                                            *)
(***************************************************************************)
EXTENDS Integers, Sequences, FiniteSets, TLC

VARIABLES
    req,                \* Args / cfg / environment facts fixed for the launch
    pc,                 \* position of the control thread
    outcome,            \* "running", "done", "fatal" (sys.exit) or "crash" (uncaught exception)
    use_steam_runtime,  \* StarterProton._use_steam_runtime
    tempdir,            \* StarterProton._steamruntime_usr_tempdir: "None" or its name
    tempdirExists,      \* whether the temporary directory is on disk
    args,               \* StarterProton._args
    cmd,                \* argv of the main invocation (helper_args / wine_args)
    procs,              \* helper processes, in spawn order
    mainp,              \* the main wrapped process
    helper_outcome,     \* the Steam Runtime helper script: "none", "running", "done", "crash"
    clock,              \* seconds slept so far (lower bound of elapsed time)
    trace,              \* stage events executed so far
    builds,             \* results of the builds performed (round-trip specification)
    stops,              \* helper lists after each run of the stop step
    mtimes,             \* st_mtime of each candidate loginusers.vdf, or Missing
    loginvdfs_timestamps, \* wait_for_steam: the timestamps recorded by get_mtime
    waittime,           \* wait_for_loginvdf_update: seconds left
    ws_steamdir,        \* wait_for_steam: its steamdir (a path, <<>> for None)
    ws_how,             \* wait_for_steam: the branch that determined steamdir
    shared_paths,       \* StarterProton._init_args: its shared_paths
    spawned,            \* argv of each child process the launcher has started
    flags,              \* main: the action and runner choices in Args
    disk,               \* main: the required files that are present on disk
    starters,           \* main: the starters constructed so far
    env,                \* the starter's environment, self._env
    penvs,              \* the environments the child processes were started with
    registry,           \* the values of the prefix registry that "wine reg" changes
    tempfiles,          \* the files copied into the temporary sharing directory
    pipe,               \* the pipe of Popen(stdout=PIPE): bytes buffered, the reader's state
    dl                  \* update_mod: the list dlfiles, the active download_files calls, the history

(* The locals of wait_for_steam *)
detectvars == <<mtimes, loginvdfs_timestamps, waittime, ws_steamdir, ws_how>>

(* update_mod has not been entered *)
NoDownload == [files |-> <<>>, original |-> <<>>, host |-> "none", stack |-> <<>>,
               results |-> <<>>, got |-> {}, requests |-> <<>>]

(* No pipe has been made *)
NoPipe == [buffered |-> 0, reader |-> "none"]

(* What most steps leave alone *)
mainvars == <<flags, disk, starters>>
envrest == <<env, penvs, registry, pipe, dl>>
envvars == <<envrest, tempfiles>>
idlerest == <<detectvars, mainvars, envrest>>
xrest == <<idlerest, shared_paths, spawned>>
idlevars == <<detectvars, mainvars, envvars>>
xvars == <<idlevars, shared_paths, spawned>>

vars == <<req, pc, outcome, use_steam_runtime, tempdir, tempdirExists, args, cmd,
          procs, mainp, helper_outcome, clock, trace, builds, stops, xvars>>

----------------------------------------------------------------------------
(* Bounds of the model *)

MaxExe == 2          \* configured third-party executables
MaxWait == 3         \* largest configured aggregate delay
MaxProcs == 4        \* helper list length in the stop-step specification
MaxMajor == 7        \* largest Proton major version enumerated
MaxMinor == 14       \* largest Proton minor version enumerated
MaxLines == 2        \* lines of the library-folder manifest
MaxMtime == 2        \* largest modification time of a login-state file
MaxOpts == 3         \* pieces of the game options string between spaces
MaxOps == 3          \* desktop toggles applied to one registry
PipeCapacity == 2    \* chunks of output the pipe buffers before a writer blocks
MaxFiles == 2        \* files of the mod found missing or outdated
MaxNesting == 2      \* nested download_files calls the interpreter's stack has room for

(* Program constants *)

EarlyWait == 5       \* delay after the presence bridge
MinMajor == 5        \* Steam Runtime is used for Proton 5.13+
MinMinor == 13
NextMajor == 6
Timeout == 99        \* seconds wait_for_loginvdf_update waits at most

----------------------------------------------------------------------------
(* Paths and tokens *)

Tok(s) == <<s>>
Join(dir, name) == dir \o <<name>>
Basename(path) == <<path[Len(path)]>>

gamedir == <<"gamedir">>
protondir == <<"protondir">>
prefixdir == <<"prefixdir">>
moddir == <<"moddir">>
steamruntimedir == <<"steamruntimedir">>
truckersmp_cli_data == <<"truckersmp_cli_data">>
scriptdir == <<"scriptdir">>
proton_dist_dir == <<"protondir", "dist">>
steamdir == <<"steamdir">>

steamruntime_helper == Join(scriptdir, "steamruntime_helper.py")
flatpak_helper == Join(scriptdir, "flatpak_helper.py")
inject_exe == Join(scriptdir, "truckersmp-cli.exe")
ipcbridge == <<"truckersmp_cli_data", "wine-discord-ipc-bridge", "winediscordipcbridge.exe">>

TempNames == {"tmp-a", "tmp-b"}

(* The program files _determine_shared_paths copies into the temporary directory *)
ProgramFiles(r) ==
    {steamruntime_helper, flatpak_helper}
    \cup (IF ~r.singleplayer THEN {inject_exe} ELSE {})

(* As CopiedFiles, but the loader is not copied *)
CopiedWithoutLoader(r, td) ==
    IF td = "None" THEN {}
    ELSE {<<td>> \o Basename(f) : f \in {steamruntime_helper, flatpak_helper}}

(* The copies shutil.copy makes in the temporary directory td, if there is one *)
CopiedFiles(r, td) ==
    IF td = "None" THEN {}
    ELSE {<<td>> \o Basename(f) : f \in ProgramFiles(r)}
Executable(i) == <<"thirdparty", ToString(i)>>
Socket(i) == <<"discord-ipc", ToString(i)>>

RECURSIVE Flatten(_)
Flatten(ss) == IF ss = <<>> THEN <<>> ELSE Head(ss) \o Flatten(Tail(ss))

Range(s) == {s[i] : i \in 1..Len(s)}

----------------------------------------------------------------------------
(* StarterProton: construction of the command layers *)

(* Proton version check of StarterProton.__init__ *)
EligibleBothAtLeast(major, minor) ==
    major >= MinMajor /\ minor >= MinMinor

SandboxEligible(major, minor) ==
    major >= NextMajor \/ (major = MinMajor /\ minor >= MinMinor)

UseSteamRuntime(r) ==
    ~r.disable_steamruntime /\ SandboxEligible(r.major, r.minor)

(* get_steam_library_dirs: the Steam installation, then the manifest's libraries *)
get_steam_library_dirs(r) == <<steamdir>> \o r.libs

(* Whether _determine_shared_paths creates the temporary sharing directory *)
NeedsTempdir(r) == r.start /\ r.usr

(* The value of self._steamruntime_usr_tempdir after _determine_shared_paths;
   name is the name tempfile.TemporaryDirectory generates *)
TempdirAfterSharedPaths(r, usr, td, name) ==
    IF ~usr /\ ~r.flatpak_steam THEN td
    ELSE IF NeedsTempdir(r) THEN name ELSE td

SharedPathsNoEarlyReturn(r, usr, name) ==
    <<gamedir, protondir, prefixdir, truckersmp_cli_data>>
    \o (IF r.singleplayer THEN get_steam_library_dirs(r) ELSE <<moddir>>)
    \o (IF NeedsTempdir(r) THEN <<Tok(name)>> ELSE <<scriptdir>>)
    \o r.sockets

(* As _determine_shared_paths, but the presence-bridge sockets are left out *)
SharedPathsWithoutSockets(r, usr, name) ==
    IF ~usr /\ ~r.flatpak_steam THEN <<>>
    ELSE <<gamedir, protondir, prefixdir, truckersmp_cli_data>>
         \o (IF r.singleplayer
             THEN (IF ~r.flatpak_steam THEN get_steam_library_dirs(r) ELSE <<>>)
             ELSE <<moddir>>)
         \o (IF NeedsTempdir(r) THEN <<Tok(name)>> ELSE <<scriptdir>>)

(* _determine_shared_paths; usr is self._use_steam_runtime, name as above *)
determine_shared_paths(r, usr, name) ==
    IF ~usr /\ ~r.flatpak_steam THEN <<>>
    ELSE <<gamedir, protondir, prefixdir, truckersmp_cli_data>>
         \o (IF r.singleplayer
             THEN (IF ~r.flatpak_steam THEN get_steam_library_dirs(r) ELSE <<>>)
             ELSE <<moddir>>)
         \o (IF NeedsTempdir(r) THEN <<Tok(name)>> ELSE <<scriptdir>>)
         \o r.sockets

Python(usr) == IF usr THEN Tok("python3") ELSE Tok("sys.executable")

(* As FilesystemPairs, but the pairs are emitted from the last path to the first *)
FilesystemPairsReversed(shared) ==
    Flatten([i \in 1..Len(shared) |->
                <<Tok("--filesystem"), shared[Len(shared) + 1 - i]>>])

FilesystemPairs(shared) ==
    Flatten([i \in 1..Len(shared) |-> <<Tok("--filesystem"), shared[i]>>])

FilesystemFlags(shared) ==
    [i \in 1..Len(shared) |-> <<"--filesystem=">> \o shared[i]]

(* The copy of a program file that the command refers to *)
ProgramFile(file, td) ==
    IF td = "None" THEN file ELSE Tok(td) \o Basename(file)

(* The Steam Runtime layer that _init_args appends to args["steamrt"] *)
SteamrtLayer(r, usr, shared) ==
    IF usr
    THEN <<Join(steamruntimedir, "run")>> \o FilesystemPairs(shared) \o <<Tok("--")>>
    ELSE <<>>

(* The Flatpak layer that _init_args appends to args["flatpak"] *)
FlatpakLayer(r, shared, td) ==
    IF r.flatpak_steam
    THEN <<Tok("flatpak"), Tok("run"), Tok("--command=python3")>>
         \o FilesystemFlags(shared)
         \o <<Tok("com.valvesoftware.Steam"), ProgramFile(flatpak_helper, td)>>
    ELSE <<>>

(* As _init_args, but with the wine lists copied before the flags are added *)
InitArgsCopyFirst(a, r, usr, shared, td) ==
    LET rt == a.steamrt \o SteamrtLayer(r, usr, shared)
    IN  [wine       |-> a.steamrt \o SteamrtLayer(r, usr, <<>>)
                        \o <<Join(proton_dist_dir, "bin/wine")>>,
         wineserver |-> rt \o <<Join(proton_dist_dir, "bin/wineserver")>>,
         steamrt    |-> rt \o <<Python(usr)>>,
         proton     |-> a.proton \o <<Python(usr), Join(protondir, "proton"), Tok("run")>>,
         flatpak    |-> a.flatpak \o FlatpakLayer(r, shared, td)]

(* _init_args: a holds the lists so far, which are extended in place *)
init_args(a, r, usr, shared, td) ==
    LET rt == a.steamrt \o SteamrtLayer(r, usr, shared)
    IN  [wine       |-> rt \o <<Join(proton_dist_dir, "bin/wine")>>,
         wineserver |-> rt \o <<Join(proton_dist_dir, "bin/wineserver")>>,
         steamrt    |-> rt \o <<Python(usr)>>,
         proton     |-> a.proton \o <<Python(usr), Join(protondir, "proton"), Tok("run")>>,
         flatpak    |-> a.flatpak \o FlatpakLayer(r, shared, td)]

EmptyArgs ==
    [wine |-> <<>>, wineserver |-> <<>>, steamrt |-> <<>>, proton |-> <<>>,
     flatpak |-> <<>>]

(* Whether the presence bridge is passed to the helper *)
ProtonStartsBridge(r) == ~r.without_bridge /\ Len(r.sockets) > 0

(* Whether StarterWine.run starts the presence bridge: the sockets are not looked at *)
WineStartsBridge(r) == ~r.without_bridge

VerboseFlag(r) ==
    IF r.verbose = 0 THEN <<>>
    ELSE IF r.verbose = 1 THEN <<Tok("-v")>> ELSE <<Tok("-vv")>>

(* _setup_helper_args: extends the given list (args["steamrt"]) in place *)
setup_helper_args(rt, r, td) ==
    rt \o <<ProgramFile(steamruntime_helper, td)>>
       \o (IF ProtonStartsBridge(r)
           THEN <<Tok("--early-executable"), ipcbridge,
                  Tok("--early-wait-before-start"), Tok(ToString(EarlyWait))>>
           ELSE <<>>)
       \o Flatten([i \in 1..Len(r.executables) |->
                      <<Tok("--executable"), r.executables[i]>>])
       \o <<Tok("--wait-before-start"), Tok(ToString(r.thirdparty_wait))>>
       \o VerboseFlag(r)

RECURSIVE NonEmpty(_)
NonEmpty(opts) ==
    IF opts = <<>> THEN <<>>
    ELSE (IF Head(opts) = "" THEN <<>> ELSE <<Tok(Head(opts))>>) \o NonEmpty(Tail(opts))

(* As GameOptions, but with the user's options ahead of the backend selector *)
OptionsThenBackend(r) == NonEmpty(r.game_options \o <<"-rdevice", r.rendering_backend>>)

(* The game options of both starters: "-rdevice <backend> <options>" split at spaces *)
GameOptions(r) == NonEmpty(<<"-rdevice", r.rendering_backend>> \o r.game_options)

ExeName(r) == IF r.ets2 THEN "eurotrucks2.exe" ELSE "amtrucks.exe"

(* _setup_proton_args: extends the given list (args["proton"]) in place *)
setup_proton_args(pa, r, td) ==
    pa \o (IF r.singleplayer
           THEN <<gamedir \o <<"bin/win_x64", ExeName(r)>> >>
           ELSE <<ProgramFile(inject_exe, td), gamedir, moddir>>)
       \o GameOptions(r)

(* helper_args of StarterProton.run *)
HelperArgs(a) == a.flatpak \o a.steamrt \o <<Tok("--")>> \o a.proton

(* StarterWine.setup_wine_args *)
setup_wine_args(wa, r) ==
    wa \o (IF r.wine_desktop # ""
           THEN <<Tok("explorer"), <<"/desktop=TruckersMP,", r.wine_desktop>> >>
           ELSE <<>>)
       \o (IF r.singleplayer
           THEN <<gamedir \o <<"bin/win_x64", ExeName(r)>> >>
           ELSE <<inject_exe, gamedir, moddir>>)

(* wine_args of StarterWine.run: the wine command, setup_wine_args, the game options *)
WineArgs(r) == setup_wine_args(<<Tok("wine")>>, r) \o GameOptions(r)

----------------------------------------------------------------------------
(* The Steam Runtime helper script's view of its command line (argparse) *)

RECURSIVE IndexOf(_, _, _)
IndexOf(argv, tok, i) ==
    IF i > Len(argv) THEN 0
    ELSE IF argv[i] = tok THEN i ELSE IndexOf(argv, tok, i + 1)

(* Position of the helper script in the command: the interpreter's first argument *)
HelperScriptIndex(argv) ==
    LET own == {i \in 1..Len(argv) :
                   Basename(argv[i]) = Basename(steamruntime_helper)}
    IN  IF own = {} THEN 0 ELSE CHOOSE i \in own : \A j \in own : i <= j

(* sys.argv[1:] of the helper script *)
HelperArgv(argv) ==
    LET h == HelperScriptIndex(argv)
    IN  IF h = 0 THEN <<>> ELSE SubSeq(argv, h + 1, Len(argv))

(* The options end at the first "--"; everything after it is game_arguments *)
OptionPart(av) ==
    LET sep == IndexOf(av, Tok("--"), 1)
    IN  IF sep = 0 THEN av ELSE SubSeq(av, 1, sep - 1)

game_arguments(av) ==
    LET sep == IndexOf(av, Tok("--"), 1)
    IN  IF sep = 0 THEN <<>> ELSE SubSeq(av, sep + 1, Len(av))

RECURSIVE ValuesOf(_, _)
(* action="append": the values of every occurrence of the option, in order *)
ValuesOf(opts, flag) ==
    IF Len(opts) < 2 THEN <<>>
    ELSE IF Head(opts) = Tok(flag)
         THEN <<opts[2]>> \o ValuesOf(SubSeq(opts, 3, Len(opts)), flag)
         ELSE ValuesOf(Tail(opts), flag)

(* type=int *)
ParseInt(tok) ==
    IF \E n \in 0..(MaxWait + EarlyWait + 1) : Tok(ToString(n)) = tok
    THEN CHOOSE n \in 0..(MaxWait + EarlyWait + 1) : Tok(ToString(n)) = tok
    ELSE 0

(* type=int, default=0; the last occurrence wins *)
IntOption(opts, flag) ==
    LET vs == ValuesOf(opts, flag)
    IN  IF vs = <<>> THEN 0 ELSE ParseInt(vs[Len(vs)])

early_executable(av) == ValuesOf(OptionPart(av), "--early-executable")
executable(av) == ValuesOf(OptionPart(av), "--executable")
early_wait_before_start(av) == IntOption(OptionPart(av), "--early-wait-before-start")
WaitOptionIgnored(av) == 0

wait_before_start(av) == IntOption(OptionPart(av), "--wait-before-start")

(* As proton_run, but with the first two tokens only *)
FirstTwoArguments(av) ==
    LET g == game_arguments(av)
    IN  SubSeq(g, 1, IF Len(g) < 2 THEN Len(g) ELSE 2)

(* args.game_arguments[0:3] *)
proton_run(av) ==
    LET g == game_arguments(av)
    IN  SubSeq(g, 1, IF Len(g) < 3 THEN Len(g) ELSE 3)

----------------------------------------------------------------------------
(* Helper processes *)

(* subprocess.Popen of a helper *)
Spawn(kind, argv, now) ==
    [kind |-> kind, argv |-> argv, at |-> now, st |-> "running",
     polled |-> FALSE, kills |-> 0, deadkills |-> 0, waited |-> FALSE]

(* proc.poll() is None *)
PollIsNone(p) == p.st = "running"

KillUnconditionally(p) == TRUE

(* Whether the stop step sends a kill to the process *)
ShouldKill(p) == PollIsNone(p)

(* One iteration of the stop loop: poll, kill if still alive, wait *)
StopProc(p) ==
    [p EXCEPT !.polled = TRUE,
              !.kills = @ + (IF ShouldKill(p) THEN 1 ELSE 0),
              !.deadkills = @ + (IF ShouldKill(p) /\ p.st # "running" THEN 1 ELSE 0),
              !.st = "reaped",
              !.waited = TRUE]

(* StarterWine._cleanup *)
StarterWine_cleanup(ps) == [i \in 1..Len(ps) |-> StopProc(ps[i])]

(* The final loop of the helper script over thirdparty + early processes *)
helper_stop(ps) == [i \in 1..Len(ps) |-> StopProc(ps[i])]

NormalCount(ps) == Cardinality({i \in 1..Len(ps) : ps[i].kind = "normal"})

----------------------------------------------------------------------------
(* Launch requests *)

Request(st, sp, dis, fl, ver, usr, nsock, wb, nexe, wait, desk, act) ==
    [starter |-> st, singleplayer |-> sp, ets2 |-> TRUE,
     disable_steamruntime |-> dis, flatpak_steam |-> fl,
     major |-> ver[1], minor |-> ver[2], start |-> TRUE, usr |-> usr,
     sockets |-> [i \in 1..nsock |-> Socket(i)], libs |-> <<>>,
     without_bridge |-> wb, executables |-> [i \in 1..nexe |-> Executable(i)],
     thirdparty_wait |-> wait, verbose |-> 0,
     rendering_backend |-> "dx11", game_options |-> <<"">>,
     wine_desktop |-> desk, activate_d3d |-> act]

Waits == {0, MaxWait}
Desktops == {"", "1024x768"}
LaunchVersions == {<<MinMajor, MinMinor - 1>>, <<NextMajor, 0>>}

ProtonRequests ==
    {Request("proton", sp, FALSE, fl, ver, usr, nsock, wb, nexe, wait, desk, act) :
        sp \in BOOLEAN, fl \in BOOLEAN, ver \in LaunchVersions, usr \in BOOLEAN,
        nsock \in 0..1, wb \in BOOLEAN, nexe \in 0..MaxExe, wait \in Waits,
        desk \in Desktops, act \in BOOLEAN}

WineRequests ==
    {Request("wine", sp, FALSE, FALSE, <<0, 0>>, FALSE, 0, wb, nexe, wait, desk, act) :
        sp \in BOOLEAN, wb \in BOOLEAN, nexe \in 0..MaxExe, wait \in Waits,
        desk \in Desktops, act \in BOOLEAN}

NoMain == [st |-> "none", code |-> 0, at |-> 0, argv |-> <<>>]

Ev(stage, step) == [stage |-> stage, step |-> step]

Stages(t) == {t[i].stage : i \in 1..Len(t)}

(* wait_for_steam has not been entered *)
InitDetection ==
    /\ mtimes = <<>>
    /\ loginvdfs_timestamps = <<>>
    /\ waittime = 0
    /\ ws_steamdir = <<>>
    /\ ws_how = "none"

(* The fields of the starters and the helper script before anything has run *)
InitStarterFields ==
    /\ outcome = "running"
    /\ use_steam_runtime = FALSE
    /\ tempdir = "None"
    /\ tempdirExists = FALSE
    /\ args = EmptyArgs
    /\ cmd = <<>>
    /\ procs = <<>>
    /\ mainp = NoMain
    /\ helper_outcome = "none"
    /\ clock = 0
    /\ trace = <<>>
    /\ builds = <<>>
    /\ stops = <<>>

(* The environment is not followed *)
InitLaunch ==
    /\ InitStarterFields
    /\ env = <<>>
    /\ penvs = <<>>
    /\ registry = <<>>
    /\ tempfiles = {}
    /\ pipe = NoPipe
    /\ dl = NoDownload

(* main has not been entered *)
InitMainIdle ==
    /\ flags = <<>>
    /\ disk = {}
    /\ starters = <<>>

InitCommon ==
    /\ InitDetection
    /\ InitLaunch
    /\ InitMainIdle
    /\ shared_paths = <<>>
    /\ spawned = <<>>

(* A launch; with Proton its wine binary may or may not be unpacked yet *)
Init ==
    /\ req \in ProtonRequests \cup WineRequests
    /\ pc = IF req.starter = "proton" THEN "proton_init" ELSE "wine_run"
    /\ InitDetection
    /\ InitLaunch
    /\ flags = <<>>
    /\ starters = <<>>
    /\ disk \in (IF req.starter = "proton" THEN {{}, {"bin/wine"}} ELSE {{}})
    /\ shared_paths = <<>>
    /\ spawned = <<>>

(* sys.exit(message): the launcher terminates with a non-zero code *)
Fatal ==
    /\ outcome' = "fatal"
    /\ pc' = "end"

(* An exception nobody catches: the launcher terminates with a traceback *)
Crash ==
    /\ outcome' = "crash"
    /\ pc' = "end"

Log(ev) == trace' = Append(trace, ev)

(* The launcher starts child processes with the given argument vectors *)
Started(argvs) == spawned' = spawned \o argvs

(* _init_proton_dist_and_prefix: the wineboot command *)
wineboot(a) == a.proton \o <<Tok("wineboot")>>

(* Registry keys, as the components between backslashes *)
regkey_explorer == <<"HKCU", "Software", "Wine", "Explorer">>
regkey_desktops == regkey_explorer \o <<"Desktops">>
regkey_dlloverrides(r) ==
    <<"HKCU", "Software", "Wine", "AppDefaults", ExeName(r), "DllOverrides">>

(* The "reg add" and "reg delete" arguments of the wine command for a registry value *)
RegAdd(key, name, data) ==
    <<Tok("reg"), Tok("add"), key, Tok("/v"), Tok(name), Tok("/t"), Tok("REG_SZ"),
      Tok("/d"), Tok(data), Tok("/f")>>
RegDelete(key, name) ==
    <<Tok("reg"), Tok("delete"), key, Tok("/v"), Tok(name), Tok("/f")>>

(* As set_wine_desktop_registry, but disabling leaves the desktop size behind *)
DisableKeepsSize(wine, size, enable) ==
    IF enable
    THEN <<wine \o RegAdd(regkey_explorer, "Desktop", "Default"),
           wine \o RegAdd(regkey_desktops, "Default", size)>>
    ELSE <<wine \o RegDelete(regkey_explorer, "Desktop")>>

(* set_wine_desktop_registry: the two wine commands it calls; size is
   Args.wine_desktop *)
set_wine_desktop_registry(wine, size, enable) ==
    IF enable
    THEN <<wine \o RegAdd(regkey_explorer, "Desktop", "Default"),
           wine \o RegAdd(regkey_desktops, "Default", size)>>
    ELSE <<wine \o RegDelete(regkey_explorer, "Desktop"),
           wine \o RegDelete(regkey_desktops, "Default")>>

(* What one "wine reg ... /f" command does to the registry: "add" sets the value of
   the key to the data, "delete" removes the value if it is there *)
reg(hive, argv) ==
    LET at == IndexOf(argv, Tok("reg"), 1)
        value == <<argv[at + 2], argv[at + 4][1]>>
    IN  IF argv[at + 1] = Tok("add")
        THEN [v \in DOMAIN hive \cup {value} |->
                 IF v = value THEN argv[at + 8][1] ELSE hive[v]]
        ELSE [v \in DOMAIN hive \ {value} |-> hive[v]]

(* The registry after the given commands, in order *)
RECURSIVE RegistryAfter(_, _)
RegistryAfter(hive, argvs) ==
    IF argvs = <<>> THEN hive
    ELSE RegistryAfter(reg(hive, Head(argvs)), Tail(argvs))

(* subproc.call of registry commands: they are started and act on the registry *)
Called(argvs) ==
    /\ spawned' = spawned \o argvs
    /\ registry' = RegistryAfter(registry, argvs)

----------------------------------------------------------------------------
(* StarterProton *)

EnableAfterBuild ==
    <<"proton_prefix", "proton_d3d", "proton_build", "proton_desktop_enable",
      "proton_flatpak_shutdown", "proton_helper_args", "proton_popen">>

(* The steps of StarterProton.run up to the Popen of the helper, in program order *)
StarterProton_run_order ==
    <<"proton_prefix", "proton_d3d", "proton_desktop_enable", "proton_build",
      "proton_flatpak_shutdown", "proton_helper_args", "proton_popen">>

(* The step that follows the given one in run *)
After(step) ==
    StarterProton_run_order[IndexOf(StarterProton_run_order, step, 1) + 1]

(* __init__ up to the Steam directory: version check and Steam detection *)
StarterProton_init ==
    /\ pc = "proton_init"
    /\ use_steam_runtime' = UseSteamRuntime(req)
    /\ IF req.flatpak_steam
       THEN UNCHANGED trace
       ELSE Log(Ev("DETECT_STEAM", "wait_for_steam"))
    /\ pc' = "proton_init_args"
    /\ UNCHANGED <<req, xvars, outcome, tempdir, tempdirExists, args, cmd, procs, mainp,
                   helper_outcome, clock, builds, stops>>

(* __init__: self._init_args(self._args) *)
StarterProton_init_args ==
    /\ pc = "proton_init_args"
    /\ \E name \in TempNames :
        LET td == TempdirAfterSharedPaths(req, use_steam_runtime, tempdir, name)
            shared == determine_shared_paths(req, use_steam_runtime, name)
        IN  /\ tempdir' = td
            /\ tempdirExists' = (td # "None")
            /\ tempfiles' = IF td = tempdir THEN tempfiles ELSE CopiedFiles(req, td)
            /\ args' = init_args(args, req, use_steam_runtime, shared, td)
            /\ shared_paths' = shared
    /\ Log(Ev("BUILD", "_init_args"))
    /\ pc' = StarterProton_run_order[1]
    /\ UNCHANGED <<req, idlerest, spawned, outcome, use_steam_runtime, cmd, procs, mainp,
                   helper_outcome, clock, builds, stops>>

D3dSetupOnlyByBackend(r, skippable) ==
    ~r.singleplayer /\ r.rendering_backend = "dx11" /\ ~skippable

(* do_d3dcompiler_setup of both starters; skippable is is_d3dcompiler_setup_skippable() *)
do_d3dcompiler_setup(r, skippable) ==
    r.activate_d3d
    \/ (~r.singleplayer /\ r.rendering_backend = "dx11" /\ ~skippable)

(* run: the prefix directory and _init_proton_dist_and_prefix (wineboot), which
   unpacks Proton's dist and with it the wine binary *)
StarterProton_run_prefix ==
    /\ pc = "proton_prefix"
    /\ \E skippable \in BOOLEAN, ok \in BOOLEAN :
        LET d3d == do_d3dcompiler_setup(req, skippable)
            accessible == "bin/wine" \in disk
        IN  IF (~accessible \/ d3d) /\ ~ok
            THEN /\ Fatal
                 /\ Log(Ev("PREPARE_PREFIX", "wineboot"))
                 /\ Started(<<wineboot(args)>>)
                 /\ UNCHANGED disk
            ELSE /\ pc' = IF d3d THEN After("proton_prefix") ELSE After("proton_d3d")
                 /\ Log(Ev("PREPARE_PREFIX",
                           IF ~accessible \/ d3d THEN "wineboot" ELSE "makedirs"))
                 /\ Started(IF ~accessible \/ d3d THEN <<wineboot(args)>> ELSE <<>>)
                 /\ disk' = IF ~accessible \/ d3d THEN disk \cup {"bin/wine"} ELSE disk
                 /\ UNCHANGED outcome
    /\ UNCHANGED <<req, detectvars, flags, starters, envvars, shared_paths,
                   use_steam_runtime, tempdir, tempdirExists, args, cmd, procs,
                   mainp, helper_outcome, clock, builds, stops>>

(* run: activate_native_d3dcompiler_47, which exits when the download fails *)
StarterProton_run_d3d ==
    /\ pc = "proton_d3d"
    /\ \E ok \in BOOLEAN :
        IF ok
        THEN /\ pc' = After("proton_d3d")
             /\ Log(Ev("D3D", "activate_native_d3dcompiler_47"))
             /\ Called(<<args.wine
                          \o RegAdd(regkey_dlloverrides(req), "d3dcompiler_47", "native")>>)
             /\ UNCHANGED outcome
        ELSE /\ Fatal
             /\ UNCHANGED <<trace, spawned, registry>>
    /\ UNCHANGED <<req, detectvars, mainvars, env, penvs, tempfiles, pipe, dl, shared_paths, use_steam_runtime, tempdir, tempdirExists, args, cmd, procs,
                   mainp, helper_outcome, clock, builds, stops>>

(* run: set_wine_desktop_registry(..., True) if requested *)
StarterProton_run_desktop_enable ==
    /\ pc = "proton_desktop_enable"
    /\ IF req.wine_desktop # ""
       THEN /\ Log(Ev("DESKTOP_ENABLE", "set_wine_desktop_registry"))
            /\ Called(set_wine_desktop_registry(args.wine, req.wine_desktop, TRUE))
       ELSE UNCHANGED <<trace, spawned, registry>>
    /\ pc' = After("proton_desktop_enable")
    /\ UNCHANGED <<req, detectvars, mainvars, env, penvs, tempfiles, pipe, dl, shared_paths, outcome, use_steam_runtime, tempdir, tempdirExists, args, cmd,
                   procs, mainp, helper_outcome, clock, builds, stops>>

(* run: setup_game_env and _setup_proton_args *)
StarterProton_run_build ==
    /\ pc = "proton_build"
    /\ args' = [args EXCEPT !.proton = setup_proton_args(@, req, tempdir)]
    /\ Log(Ev("BUILD", "_setup_proton_args"))
    /\ pc' = After("proton_build")
    /\ UNCHANGED <<req, xvars, outcome, use_steam_runtime, tempdir, tempdirExists, cmd, procs,
                   mainp, helper_outcome, clock, builds, stops>>

(* run: shutdown_flatpak_steam, whose "flatpak ps" may raise *)
StarterProton_shutdown_flatpak_steam ==
    /\ pc = "proton_flatpak_shutdown"
    /\ \E ok \in BOOLEAN :
        IF req.flatpak_steam /\ ~ok
        THEN Crash
        ELSE /\ pc' = After("proton_flatpak_shutdown")
             /\ UNCHANGED outcome
    /\ UNCHANGED <<req, xvars, use_steam_runtime, tempdir, tempdirExists, args, cmd, procs,
                   mainp, helper_outcome, clock, trace, builds, stops>>

(* run: helper_args, with _setup_helper_args; setup_wine_discord_ipc_bridge exits
   when the bridge has to be downloaded and the download fails *)
StarterProton_run_helper_args ==
    /\ pc = "proton_helper_args"
    /\ \E ok \in BOOLEAN :
        IF ProtonStartsBridge(req) /\ ~ok
        THEN /\ Fatal
             /\ UNCHANGED <<args, cmd, trace>>
        ELSE /\ args' = [args EXCEPT !.steamrt = setup_helper_args(@, req, tempdir)]
             /\ cmd' = HelperArgs(args')
             /\ Log(Ev("BUILD", "_setup_helper_args"))
             /\ pc' = After("proton_helper_args")
             /\ UNCHANGED outcome
    /\ UNCHANGED <<req, xvars, use_steam_runtime, tempdir, tempdirExists, procs, mainp,
                   helper_outcome, clock, builds, stops>>

(* run: subproc.Popen(helper_args); an OSError is not caught *)
StarterProton_run_popen ==
    /\ pc = "proton_popen"
    /\ \E ok \in BOOLEAN :
        IF ok
        THEN /\ helper_outcome' = "running"
             /\ pc' = IF req.flatpak_steam THEN "flatpak_helper" ELSE "helper_early"
             /\ Started(<<cmd>>)
             /\ UNCHANGED outcome
        ELSE /\ helper_outcome' = "exec_failed"
             /\ Crash
             /\ UNCHANGED spawned
    /\ UNCHANGED <<req, idlevars, shared_paths, use_steam_runtime, tempdir, tempdirExists, args, cmd, procs,
                   mainp, clock, trace, builds, stops>>

----------------------------------------------------------------------------
(* flatpak_helper.py and steamruntime_helper.py, run as the child of StarterProton *)

(* The child is gone: StarterProton's proc.wait() returns *)
HelperEnds(how) ==
    /\ helper_outcome' = how
    /\ pc' = "proton_wait"

(* flatpak_helper.main: start Steam, wait for it, then Popen the helper command *)
flatpak_helper_main ==
    /\ pc = "flatpak_helper"
    /\ Log(Ev("DETECT_STEAM", "wait_for_flatpak_steam"))
    /\ \E ok \in BOOLEAN :
        IF ok
        THEN /\ pc' = "helper_early"
             /\ UNCHANGED helper_outcome
        ELSE HelperEnds("crash")
    /\ UNCHANGED <<req, xvars, outcome, use_steam_runtime, tempdir, tempdirExists, args, cmd,
                   procs, mainp, clock, builds, stops>>

EarlyCount(ps) == Cardinality({i \in 1..Len(ps) : ps[i].kind = "early"})

(* start_thirdparty_programs(args.early_executable, ...): one Popen of its loop *)
helper_start_early ==
    /\ pc = "helper_early"
    /\ LET av == HelperArgv(cmd)
           exes == early_executable(av)
           k == EarlyCount(procs) + 1
       IN  /\ k <= Len(exes)
           /\ \E ok \in BOOLEAN :
               IF ok
               THEN /\ procs' = Append(procs,
                                   Spawn("early", proton_run(av) \o <<exes[k]>>, clock))
                    /\ Log(Ev("START_HELPERS", "early"))
                    /\ UNCHANGED <<pc, helper_outcome>>
               ELSE /\ HelperEnds("crash")
                    /\ UNCHANGED <<procs, trace>>
    /\ UNCHANGED <<req, xvars, outcome, use_steam_runtime, tempdir, tempdirExists, args, cmd,
                   mainp, clock, builds, stops>>

(* time.sleep(args.early_wait_before_start) *)
helper_early_sleep ==
    /\ pc = "helper_early"
    /\ LET av == HelperArgv(cmd)
       IN  /\ EarlyCount(procs) = Len(early_executable(av))
           /\ clock' = clock + early_wait_before_start(av)
    /\ pc' = "helper_normal"
    /\ UNCHANGED <<req, xvars, outcome, use_steam_runtime, tempdir, tempdirExists, args, cmd,
                   procs, mainp, helper_outcome, trace, builds, stops>>

(* start_thirdparty_programs(args.executable, ...): one Popen of its loop *)
helper_start_normal ==
    /\ pc = "helper_normal"
    /\ LET av == HelperArgv(cmd)
           exes == executable(av)
           k == NormalCount(procs) + 1
       IN  /\ k <= Len(exes)
           /\ \E ok \in BOOLEAN :
               IF ok
               THEN /\ procs' = Append(procs,
                                   Spawn("normal", proton_run(av) \o <<exes[k]>>, clock))
                    /\ Log(Ev("START_HELPERS", "normal"))
                    /\ UNCHANGED <<pc, helper_outcome>>
               ELSE /\ HelperEnds("crash")
                    /\ UNCHANGED <<procs, trace>>
    /\ UNCHANGED <<req, xvars, outcome, use_steam_runtime, tempdir, tempdirExists, args, cmd,
                   mainp, clock, builds, stops>>

(* time.sleep(args.wait_before_start) *)
helper_sleep ==
    /\ pc = "helper_normal"
    /\ LET av == HelperArgv(cmd)
       IN  /\ NormalCount(procs) = Len(executable(av))
           /\ clock' = clock + wait_before_start(av)
    /\ pc' = "helper_main"
    /\ UNCHANGED <<req, xvars, outcome, use_steam_runtime, tempdir, tempdirExists, args, cmd,
                   procs, mainp, helper_outcome, trace, builds, stops>>

(* subproc.Popen(args.game_arguments); an OSError is not caught *)
helper_main ==
    /\ pc = "helper_main"
    /\ \E ok \in BOOLEAN :
        IF ok
        THEN /\ mainp' = [st |-> "running", code |-> 0, at |-> clock,
                          argv |-> game_arguments(HelperArgv(cmd))]
             /\ Log(Ev("RUN_MAIN", "Popen"))
             /\ pc' = "helper_main_wait"
             /\ UNCHANGED helper_outcome
        ELSE /\ mainp' = [NoMain EXCEPT !.st = "exec_failed"]
             /\ HelperEnds("crash")
             /\ UNCHANGED trace
    /\ UNCHANGED <<req, xvars, outcome, use_steam_runtime, tempdir, tempdirExists, args, cmd,
                   procs, clock, builds, stops>>

ExitCodes == {0, 1}

(* As Waited, but the with-block goes on while the process still runs *)
WithoutWait(p, code) == p

(* Popen.__exit__ of the with-block: the wait on the process has returned *)
Waited(p, code) == [p EXCEPT !.st = "exited", !.code = code]

SkipStopOnFailure(code) == IF code = 0 THEN "helper_stop" ELSE "proton_wait"

(* Where the helper script goes when the main process has exited with the given
   code: to the stop loop, whatever the code, since nothing inspects it *)
AfterMainExit(code) == "helper_stop"

(* The main process exits; the with-block of the helper script ends *)
helper_main_exit ==
    /\ pc = "helper_main_wait"
    /\ \E code \in ExitCodes :
        /\ mainp' = Waited(mainp, code)
        /\ pc' = AfterMainExit(code)
    /\ UNCHANGED <<req, xvars, outcome, use_steam_runtime, tempdir, tempdirExists, args, cmd,
                   procs, helper_outcome, clock, trace, builds, stops>>

(* The final loop: every helper is polled, killed if alive, and waited *)
helper_stop_all ==
    /\ pc = "helper_stop"
    /\ procs' = helper_stop(procs)
    /\ Log(Ev("CLEANUP", "stop helpers"))
    /\ HelperEnds("done")
    /\ UNCHANGED <<req, xvars, outcome, use_steam_runtime, tempdir, tempdirExists, args, cmd,
                   mainp, clock, builds, stops>>

----------------------------------------------------------------------------
(* StarterProton.run after the helper has exited *)

(* set_wine_desktop_registry(..., False) if enabled *)
StarterProton_run_desktop_disable ==
    /\ pc = "proton_wait"
    /\ IF req.wine_desktop # ""
       THEN /\ Log(Ev("DESKTOP_DISABLE", "set_wine_desktop_registry"))
            /\ Called(set_wine_desktop_registry(args.wine, req.wine_desktop, FALSE))
       ELSE UNCHANGED <<trace, spawned, registry>>
    /\ pc' = "proton_cleanup"
    /\ UNCHANGED <<req, detectvars, mainvars, env, penvs, tempfiles, pipe, dl, shared_paths, outcome, use_steam_runtime, tempdir, tempdirExists, args, cmd,
                   procs, mainp, helper_outcome, clock, builds, stops>>

(* self._cleanup(): the temporary directory is removed; run returns *)
StarterProton_cleanup ==
    /\ pc = "proton_cleanup"
    /\ tempdirExists' = FALSE
    /\ tempfiles' = {}
    /\ Log(Ev("CLEANUP", "_cleanup"))
    /\ outcome' = "done"
    /\ pc' = "end"
    /\ UNCHANGED <<req, xrest, use_steam_runtime, tempdir, args, cmd, procs, mainp,
                   helper_outcome, clock, builds, stops>>

----------------------------------------------------------------------------
(* StarterWine.run *)

(* activate_native_d3dcompiler_47 if required; it exits when the download fails *)
StarterWine_run_d3d ==
    /\ pc = "wine_run"
    /\ \E skippable \in BOOLEAN, ok \in BOOLEAN :
        IF do_d3dcompiler_setup(req, skippable)
        THEN IF ok
             THEN /\ Log(Ev("D3D", "activate_native_d3dcompiler_47"))
                  /\ pc' = "wine_wait_for_steam"
                  /\ UNCHANGED outcome
             ELSE /\ Fatal
                  /\ UNCHANGED trace
        ELSE /\ pc' = "wine_wait_for_steam"
             /\ UNCHANGED <<outcome, trace>>
    /\ UNCHANGED <<req, xvars, use_steam_runtime, tempdir, tempdirExists, args, cmd, procs,
                   mainp, helper_outcome, clock, builds, stops>>

(* wait_for_steam(use_proton=False, ...): the timestamps are recorded, then
   check_steam_process creates the prefix directory and lists the Wine processes,
   which exits when it fails *)
StarterWine_run_wait_for_steam ==
    /\ pc = "wine_wait_for_steam"
    /\ trace' = trace \o <<Ev("DETECT_STEAM", "wait_for_steam"),
                           Ev("PREPARE_PREFIX", "check_steam_process")>>
    /\ \E ok \in BOOLEAN :
        IF ok
        THEN /\ pc' = "wine_bridge"
             /\ UNCHANGED outcome
        ELSE Fatal
    /\ UNCHANGED <<req, xvars, use_steam_runtime, tempdir, tempdirExists, args, cmd, procs,
                   mainp, helper_outcome, clock, builds, stops>>

(* The presence bridge: setup_wine_discord_ipc_bridge exits when the download fails,
   Popen may raise, then time.sleep(5) *)
StarterWine_run_bridge ==
    /\ pc = "wine_bridge"
    /\ IF ~WineStartsBridge(req)
       THEN /\ pc' = "wine_executables"
            /\ UNCHANGED <<outcome, procs, clock, trace>>
       ELSE \E how \in {"ok", "exit", "raise"} :
              IF how = "ok"
              THEN /\ procs' = Append(procs,
                                  Spawn("early", <<Tok("wine"), ipcbridge>>, clock))
                   /\ clock' = clock + EarlyWait
                   /\ Log(Ev("START_HELPERS", "early"))
                   /\ pc' = "wine_executables"
                   /\ UNCHANGED outcome
              ELSE /\ IF how = "exit" THEN Fatal ELSE Crash
                   /\ UNCHANGED <<procs, clock, trace>>
    /\ UNCHANGED <<req, xvars, use_steam_runtime, tempdir, tempdirExists, args, cmd, mainp,
                   helper_outcome, builds, stops>>

(* for path in executables: one Popen of the loop; an OSError is not caught *)
StarterWine_run_executable ==
    /\ pc = "wine_executables"
    /\ LET k == NormalCount(procs) + 1
       IN  /\ k <= Len(req.executables)
           /\ \E ok \in BOOLEAN :
               IF ok
               THEN /\ procs' = Append(procs,
                                   Spawn("normal", <<Tok("wine"), req.executables[k]>>,
                                         clock))
                    /\ Log(Ev("START_HELPERS", "normal"))
                    /\ UNCHANGED <<pc, outcome>>
               ELSE /\ Crash
                    /\ UNCHANGED <<procs, trace>>
    /\ UNCHANGED <<req, xvars, use_steam_runtime, tempdir, tempdirExists, args, cmd, mainp,
                   helper_outcome, clock, builds, stops>>

(* time.sleep(self._cfg.thirdparty_wait), then the command line is set up *)
StarterWine_run_build ==
    /\ pc = "wine_executables"
    /\ NormalCount(procs) = Len(req.executables)
    /\ clock' = clock + req.thirdparty_wait
    /\ cmd' = WineArgs(req)
    /\ Log(Ev("BUILD", "setup_wine_args"))
    /\ pc' = "wine_main"
    /\ UNCHANGED <<req, xvars, outcome, use_steam_runtime, tempdir, tempdirExists, args, procs,
                   mainp, helper_outcome, builds, stops>>

(* subproc.Popen(wine_args); an OSError is not caught *)
StarterWine_run_main ==
    /\ pc = "wine_main"
    /\ \E ok \in BOOLEAN :
        IF ok
        THEN /\ mainp' = [st |-> "running", code |-> 0, at |-> clock, argv |-> cmd]
             /\ Log(Ev("RUN_MAIN", "Popen"))
             /\ pc' = "wine_main_wait"
             /\ UNCHANGED outcome
        ELSE /\ mainp' = [NoMain EXCEPT !.st = "exec_failed"]
             /\ Crash
             /\ UNCHANGED trace
    /\ UNCHANGED <<req, xvars, use_steam_runtime, tempdir, tempdirExists, args, cmd, procs,
                   helper_outcome, clock, builds, stops>>

(* The main process exits; the with-block ends *)
StarterWine_run_main_exit ==
    /\ pc = "wine_main_wait"
    /\ \E code \in ExitCodes :
        mainp' = Waited(mainp, code)
    /\ pc' = "wine_cleanup"
    /\ UNCHANGED <<req, xvars, outcome, use_steam_runtime, tempdir, tempdirExists, args, cmd,
                   procs, helper_outcome, clock, trace, builds, stops>>

(* self._cleanup(); run returns *)
StarterWine_run_cleanup ==
    /\ pc = "wine_cleanup"
    /\ procs' = StarterWine_cleanup(procs)
    /\ Log(Ev("CLEANUP", "_cleanup"))
    /\ outcome' = "done"
    /\ pc' = "end"
    /\ UNCHANGED <<req, xvars, use_steam_runtime, tempdir, tempdirExists, args, cmd, mainp,
                   helper_outcome, clock, builds, stops>>

----------------------------------------------------------------------------
(* The environment: a helper process exits by itself *)
HelperExits ==
    /\ outcome = "running"
    /\ \E i \in 1..Len(procs) :
        /\ procs[i].st = "running"
        /\ procs' = [procs EXCEPT ![i].st = "exited"]
    /\ UNCHANGED <<req, xvars, pc, outcome, use_steam_runtime, tempdir, tempdirExists, args,
                   cmd, mainp, helper_outcome, clock, trace, builds, stops>>

Next ==
    \/ StarterProton_init
    \/ StarterProton_init_args
    \/ StarterProton_run_prefix
    \/ StarterProton_run_d3d
    \/ StarterProton_run_desktop_enable
    \/ StarterProton_run_build
    \/ StarterProton_shutdown_flatpak_steam
    \/ StarterProton_run_helper_args
    \/ StarterProton_run_popen
    \/ flatpak_helper_main
    \/ helper_start_early
    \/ helper_early_sleep
    \/ helper_start_normal
    \/ helper_sleep
    \/ helper_main
    \/ helper_main_exit
    \/ helper_stop_all
    \/ StarterProton_run_desktop_disable
    \/ StarterProton_cleanup
    \/ StarterWine_run_d3d
    \/ StarterWine_run_wait_for_steam
    \/ StarterWine_run_bridge
    \/ StarterWine_run_executable
    \/ StarterWine_run_build
    \/ StarterWine_run_main
    \/ StarterWine_run_main_exit
    \/ StarterWine_run_cleanup
    \/ HelperExits

Spec == Init /\ [][Next]_vars

----------------------------------------------------------------------------
(* Properties of a launch *)

Terminated == outcome # "running"
Ran(stage) == stage \in Stages(trace)
Did(stage, step) == \E i \in 1..Len(trace) : trace[i] = Ev(stage, step)
MainSpawned == mainp.st \in {"running", "exited"}
AllReaped ==
    \A i \in 1..Len(procs) :
        procs[i].polled /\ procs[i].waited /\ procs[i].st = "reaped"
Earlies == {i \in 1..Len(procs) : procs[i].kind = "early"}
Normals == {i \in 1..Len(procs) : procs[i].kind = "normal"}

(* C1: when the launcher has reached its terminal state, on whatever exit path,
   every helper process that was spawned has been polled, killed if it was still
   alive, and waited on. *)
C1_HelpersReapedOnEveryExit == Terminated => AllReaped

(* C2: if the main wrapped process exits with a non-zero code, the launch still
   completes: desktop-disable has run if desktop-enable ran, the stop step and the
   cleanup have run, and no helper process of the launch is alive. *)
C2_NonZeroExitStillCleansUp ==
    (Terminated /\ mainp.st = "exited" /\ mainp.code # 0) =>
        /\ outcome = "done"
        /\ Ran("DESKTOP_ENABLE") => Ran("DESKTOP_DISABLE")
        /\ Did("CLEANUP", "_cleanup")
        /\ req.starter = "proton" => Did("CLEANUP", "stop helpers")
        /\ AllReaped

C2_Witness ==
    /\ outcome = "done"
    /\ req.starter = "proton"
    /\ mainp.st = "exited" /\ mainp.code = 1
    /\ Ran("DESKTOP_ENABLE")
    /\ \E i \in 1..Len(procs) : procs[i].kills = 1

(* C3: if the spawn of the main wrapped process fails, the failure is not
   escalated: the launcher still completes, desktop-disable has run if
   desktop-enable ran, and the stop step and the cleanup have run. *)
C3_ExecFailureNotEscalated ==
    (Terminated /\ (mainp.st = "exec_failed" \/ helper_outcome = "exec_failed")) =>
        /\ outcome = "done"
        /\ Ran("DESKTOP_ENABLE") => Ran("DESKTOP_DISABLE")
        /\ Did("CLEANUP", "_cleanup")
        /\ AllReaped

(* C4: in the Proton starter, whenever desktop-enable has been executed,
   desktop-disable has been executed when the launch terminates, on every path. *)
C4_DisableFollowsEnable ==
    (req.starter = "proton" /\ Terminated /\ Ran("DESKTOP_ENABLE")) =>
        Ran("DESKTOP_DISABLE")

BridgeConfigured(r) ==
    IF r.starter = "proton" THEN ProtonStartsBridge(r) ELSE ~r.without_bridge

(* C6: the presence bridge is spawned before every third-party helper and the early
   delay lies between them; once the main process is spawned, the bridge (if
   configured) and every configured third-party helper have been spawned, and the
   main process is spawned no sooner than the aggregate delay after the last of
   them. *)
C6_HelperOrderAndDelays ==
    /\ \A i \in Earlies : \A j \in Normals :
          i < j /\ procs[j].at >= procs[i].at + EarlyWait
    /\ MainSpawned =>
          /\ BridgeConfigured(req) => Cardinality(Earlies) = 1
          /\ Cardinality(Normals) = Len(req.executables)
          /\ \A j \in Normals : mainp.at >= procs[j].at + req.thirdparty_wait

C6_Witness ==
    /\ MainSpawned
    /\ ~req.singleplayer
    /\ use_steam_runtime
    /\ Cardinality(Earlies) = 1
    /\ Cardinality(Normals) = MaxExe
    /\ req.thirdparty_wait = MaxWait
    /\ mainp.at = EarlyWait + MaxWait

(* The order of the stages as the design states it *)
StageRank(stage) ==
    CASE stage = "DETECT_STEAM" -> 1
      [] stage = "PREPARE_PREFIX" -> 2
      [] stage = "D3D" -> 3
      [] stage = "DESKTOP_ENABLE" -> 4
      [] stage = "BUILD" -> 5
      [] stage = "START_HELPERS" -> 6
      [] stage = "RUN_MAIN" -> 7
      [] stage = "DESKTOP_DISABLE" -> 8
      [] stage = "CLEANUP" -> 9

(* The order of the stage actions of the Proton starter *)
ProtonRank(ev) ==
    CASE ev = Ev("DETECT_STEAM", "wait_for_steam") -> 1
      [] ev = Ev("BUILD", "_init_args") -> 2
      [] ev.stage = "PREPARE_PREFIX" -> 3
      [] ev.stage = "D3D" -> 4
      [] ev.stage = "DESKTOP_ENABLE" -> 5
      [] ev = Ev("BUILD", "_setup_proton_args") -> 6
      [] ev = Ev("BUILD", "_setup_helper_args") -> 7
      [] ev = Ev("DETECT_STEAM", "wait_for_flatpak_steam") -> 8
      [] ev = Ev("START_HELPERS", "early") -> 9
      [] ev = Ev("START_HELPERS", "normal") -> 10
      [] ev.stage = "RUN_MAIN" -> 11
      [] ev = Ev("CLEANUP", "stop helpers") -> 12
      [] ev.stage = "DESKTOP_DISABLE" -> 13
      [] ev = Ev("CLEANUP", "_cleanup") -> 14

(* The order of the stage actions of the Wine starter *)
WineRank(ev) ==
    CASE ev.stage = "D3D" -> 1
      [] ev.stage = "DETECT_STEAM" -> 2
      [] ev.stage = "PREPARE_PREFIX" -> 3
      [] ev = Ev("START_HELPERS", "early") -> 4
      [] ev = Ev("START_HELPERS", "normal") -> 5
      [] ev.stage = "BUILD" -> 6
      [] ev.stage = "RUN_MAIN" -> 7
      [] ev.stage = "CLEANUP" -> 8

Rank(ev) == IF req.starter = "proton" THEN ProtonRank(ev) ELSE WineRank(ev)

(* C7 as stated: no stage action is executed before an action of a stage that the
   design lists earlier (DETECT_STEAM, PREPARE_PREFIX, d3d-compiler activation,
   desktop-enable, BUILD, START_HELPERS, RUN_MAIN, desktop-disable, CLEANUP). *)
C7_StageOrderAsStated ==
    \A i, j \in 1..Len(trace) :
        i < j => StageRank(trace[i].stage) <= StageRank(trace[j].stage)

(* C7 as amended: the stage actions of a launch are executed in the order of the
   starter. Proton: Steam detection, the base command layers (_init_args), prefix
   preparation, d3d-compiler activation, desktop-enable, the game and helper
   arguments, (with Flatpak: Steam start-up in the Flatpak helper), early helpers,
   normal helpers, main process, helper stop, desktop-disable, cleanup.
   Wine: d3d-compiler activation, Steam detection, prefix directory, early helper,
   normal helpers, command line, main process, cleanup. *)
C7_StageOrderAsBuilt ==
    \A i, j \in 1..Len(trace) : i < j => Rank(trace[i]) <= Rank(trace[j])

C7_Witness ==
    /\ outcome = "done"
    /\ req.starter = "proton"
    /\ Ran("D3D") /\ Ran("DESKTOP_ENABLE") /\ Ran("DESKTOP_DISABLE")
    /\ Did("START_HELPERS", "early") /\ Did("START_HELPERS", "normal")
    /\ Ran("RUN_MAIN")

----------------------------------------------------------------------------
(* The stop step applied to a helper list, once and once again *)

StopRequest ==
    Request("wine", FALSE, FALSE, FALSE, <<0, 0>>, FALSE, 0, FALSE, 0, 0, "", FALSE)

InitStop ==
    /\ req = StopRequest
    /\ pc = "stop_spec"
    /\ InitCommon

(* A helper is spawned: the bridge first if at all, then third-party programs *)
StopSpec_spawn ==
    /\ pc = "stop_spec"
    /\ stops = <<>>
    /\ Len(procs) < MaxProcs
    /\ \E kind \in {"early", "normal"} :
        /\ kind = "early" => procs = <<>>
        /\ procs' = Append(procs, Spawn(kind, <<Tok("wine")>>, clock))
    /\ UNCHANGED <<req, xvars, pc, outcome, use_steam_runtime, tempdir, tempdirExists, args,
                   cmd, mainp, helper_outcome, clock, trace, builds, stops>>

(* The stop step of either program runs over the whole list *)
StopSpec_stop ==
    /\ pc = "stop_spec"
    /\ Len(stops) < 2
    /\ \E which \in {"StarterWine", "helper"} :
        procs' = IF which = "helper" THEN helper_stop(procs)
                 ELSE StarterWine_cleanup(procs)
    /\ stops' = Append(stops, procs')
    /\ UNCHANGED <<req, xvars, pc, outcome, use_steam_runtime, tempdir, tempdirExists, args,
                   cmd, mainp, helper_outcome, clock, trace, builds>>

NextStop ==
    \/ StopSpec_spawn
    \/ HelperExits
    \/ StopSpec_stop

SpecStop == InitStop /\ [][NextStop]_vars

(* C5: the stop step sends a kill only to a process that poll reports alive, so no
   process is killed twice and none after it has exited or been reaped; a second
   execution on the same list changes no process state. *)
C5_StopIdempotent ==
    /\ \A i \in 1..Len(procs) : procs[i].deadkills = 0 /\ procs[i].kills <= 1
    /\ Len(stops) = 2 => stops[2] = stops[1]

C5_Witness ==
    /\ Len(stops) = 2
    /\ \E i \in 1..Len(procs) : procs[i].kills = 1
    /\ \E i \in 1..Len(procs) : procs[i].kills = 0

----------------------------------------------------------------------------
(* The command layers built for a request, once and once again *)

Majors == (MinMajor - 1)..MaxMajor
Minors == {0, MinMinor - 1, MinMinor, MaxMinor}

BuildRequests ==
    {Request("proton", sp, dis, fl, <<ma, mi>>, usr, nsock, wb, 1, 0, "", FALSE) :
        sp \in BOOLEAN, dis \in BOOLEAN, fl \in BOOLEAN, ma \in Majors, mi \in Minors,
        usr \in BOOLEAN, nsock \in 0..1, wb \in BOOLEAN}

InitBuild ==
    /\ req \in BuildRequests
    /\ pc = "build_spec"
    /\ InitCommon

ReuseArgs(old) == old

(* self._args of a new starter; old is what an earlier starter left *)
NewStarterArgs(old) == EmptyArgs

Built(fresh, name, usr, shared, layers, a) ==
    [fresh |-> fresh, name |-> name, usr |-> usr, shared |-> shared,
     layers |-> layers, args |-> a, cmd |-> HelperArgs(a)]

(* A new StarterProton is constructed and run builds its command *)
Build_new_starter ==
    /\ pc = "build_spec"
    /\ Len(builds) < 2
    /\ \E name \in TempNames :
        LET usr == UseSteamRuntime(req)
            td == TempdirAfterSharedPaths(req, usr, "None", name)
            shared == determine_shared_paths(req, usr, name)
            a1 == init_args(NewStarterArgs(args), req, usr, shared, td)
            a2 == [a1 EXCEPT !.proton = setup_proton_args(@, req, td)]
            a3 == [a2 EXCEPT !.steamrt = setup_helper_args(@, req, td)]
        IN  /\ use_steam_runtime' = usr
            /\ tempdir' = td
            /\ tempdirExists' = (td # "None")
            /\ tempfiles' = IF td = tempdir THEN tempfiles ELSE CopiedFiles(req, td)
            /\ args' = a3
            /\ cmd' = HelperArgs(a3)
            /\ builds' = Append(builds, Built(TRUE, td, usr, shared, a1, a3))
    /\ UNCHANGED <<req, xrest, pc, outcome, procs, mainp, helper_outcome, clock, trace, stops>>

(* run builds its command a second time on the same starter *)
Build_same_starter ==
    /\ pc = "build_spec"
    /\ Len(builds) = 1
    /\ LET a2 == [args EXCEPT !.proton = setup_proton_args(@, req, tempdir)]
           a3 == [a2 EXCEPT !.steamrt = setup_helper_args(@, req, tempdir)]
       IN  /\ args' = a3
           /\ cmd' = HelperArgs(a3)
           /\ builds' = Append(builds,
                               Built(FALSE, tempdir, use_steam_runtime,
                                     builds[1].shared, builds[1].layers, a3))
    /\ UNCHANGED <<req, xvars, pc, outcome, use_steam_runtime, tempdir, tempdirExists, procs,
                   mainp, helper_outcome, clock, trace, stops>>

NextBuild ==
    \/ Build_new_starter
    \/ Build_same_starter

SpecBuild == InitBuild /\ [][NextBuild]_vars

IsFilesystemFlag(tok) == tok[1] \in {"--filesystem", "--filesystem="}
IsRuntimeRun(tok) == tok = <<"steamruntimedir", "run">>
IsSeparator(tok) == tok = <<"--">>

Count(v, P(_)) == Cardinality({i \in 1..Len(v) : P(v[i])})

NoSandboxTokens(v) ==
    Count(v, IsFilesystemFlag) = 0 /\ Count(v, IsRuntimeRun) = 0
    /\ Count(v, IsSeparator) = 0

(* No list that _init_args fills holds a token of a sandbox layer *)
NoSandboxLayer(a) ==
    /\ NoSandboxTokens(a.steamrt) /\ NoSandboxTokens(a.wine)
    /\ NoSandboxTokens(a.wineserver) /\ NoSandboxTokens(a.proton)
    /\ NoSandboxTokens(a.flatpak)

(* No Steam Runtime layer: the lists of the Steam Runtime, Wine and Proton commands
   hold no token of it, and the whole command holds no '<runtime>/run', no
   '--filesystem' token and no separator but the helper script's own *)
NoSteamRuntimeLayer(b) ==
    /\ NoSandboxTokens(b.layers.steamrt) /\ NoSandboxTokens(b.layers.wine)
    /\ NoSandboxTokens(b.layers.wineserver) /\ NoSandboxTokens(b.layers.proton)
    /\ b.fresh =>
          /\ Count(b.cmd, IsRuntimeRun) = 0
          /\ Count(b.cmd, LAMBDA t : t = <<"--filesystem">>) = 0
          /\ Count(b.cmd, IsSeparator) = 1

(* C8 as stated: with sandboxing disabled, whatever the other options are, the
   shared-path computation returns the empty list and the built command contains
   no sandbox layer. *)
C8_DisabledMeansNoSharedPaths ==
    \A k \in 1..Len(builds) :
        ~builds[k].usr =>
            builds[k].shared = <<>> /\ NoSandboxLayer(builds[k].layers)

(* C8 as amended: with sandboxing disabled the built command contains no Steam
   Runtime layer, and the shared-path computation returns the empty list exactly
   when Flatpak Steam is not used either; without Flatpak Steam the command holds
   no sandbox token at all. *)
C8_DisabledMeansNoRuntimeLayer ==
    \A k \in 1..Len(builds) :
        ~builds[k].usr =>
            /\ NoSteamRuntimeLayer(builds[k])
            /\ (builds[k].shared = <<>>) <=> ~req.flatpak_steam
            /\ ~req.flatpak_steam => NoSandboxLayer(builds[k].layers)

C8_Witness ==
    /\ builds # <<>>
    /\ req.disable_steamruntime /\ req.major = 6
    /\ ~builds[1].usr
    /\ ~req.flatpak_steam /\ ~req.singleplayer /\ req.usr

LexGE(a, b) == a[1] > b[1] \/ (a[1] = b[1] /\ a[2] >= b[2])

(* Eligibility never turns false as the version grows *)
EligibilityMonotonic ==
    \A ma \in Majors, mi \in Minors :
        (LexGE(<<ma, mi>>, <<req.major, req.minor>>)
         /\ SandboxEligible(req.major, req.minor)) => SandboxEligible(ma, mi)

(* C9 as stated: the sandbox is used iff the version is at least (5, 13) in
   lexicographic order and the user did not opt out, eligibility is monotonic in
   the version, and version (5, 12) yields no sandbox layer and an empty
   shared-path list. *)
C9_EligibilityAsStated ==
    \A k \in 1..Len(builds) :
        /\ builds[k].usr <=>
              (~req.disable_steamruntime /\ LexGE(<<req.major, req.minor>>, <<5, 13>>))
        /\ EligibilityMonotonic
        /\ (req.major = 5 /\ req.minor = 12) =>
              NoSandboxLayer(builds[k].layers) /\ builds[k].shared = <<>>

(* C9 as amended: as stated, except that version (5, 12) yields no Steam Runtime
   layer and a shared-path list that is empty exactly when Flatpak Steam is not
   used. *)
C9_EligibilityByVersion ==
    \A k \in 1..Len(builds) :
        /\ builds[k].usr <=>
              (~req.disable_steamruntime /\ LexGE(<<req.major, req.minor>>, <<5, 13>>))
        /\ EligibilityMonotonic
        /\ (req.major = 5 /\ req.minor = 12) =>
              /\ NoSteamRuntimeLayer(builds[k])
              /\ (builds[k].shared = <<>>) <=> ~req.flatpak_steam

C9_Witness ==
    /\ builds # <<>>
    /\ req.major = 5 /\ req.minor = 12
    /\ ~req.disable_steamruntime /\ ~req.flatpak_steam /\ req.singleplayer

(* C10 as stated: two builds for the same request and Steam directory yield
   identical argument vectors, whether or not the starter has built before and
   whatever name a generated temporary directory got. *)
C10_BuildTwiceIdentical ==
    Len(builds) = 2 =>
        builds[1].cmd = builds[2].cmd /\ builds[1].args = builds[2].args

(* C10 as amended: two builds for the same request and Steam directory, each on a
   newly constructed starter, yield identical argument vectors provided the
   temporary sharing directory, if one is generated, got the same name. *)
C10_FreshBuildsIdentical ==
    (Len(builds) = 2 /\ builds[2].fresh /\ builds[1].name = builds[2].name) =>
        builds[1].cmd = builds[2].cmd /\ builds[1].args = builds[2].args

C10_Witness ==
    /\ Len(builds) = 2
    /\ builds[2].fresh
    /\ builds[1].name = builds[2].name /\ builds[1].name # "None"
    /\ builds[1].usr /\ ~req.singleplayer

----------------------------------------------------------------------------
(* Steam detection: wait_for_steam and wait_for_loginvdf_update *)

Dirname(path) == SubSeq(path, 1, Len(path) - 1)

XDG_DATA_HOME == <<"XDG_DATA_HOME">>
loginvdf_inner == <<"config", "loginusers.vdf">>

(* File.loginusers_paths: the known places of loginusers.vdf *)
loginusers_paths ==
    << XDG_DATA_HOME \o <<"Steam">> \o loginvdf_inner,
       <<"~/.steam">> \o loginvdf_inner,
       <<"~/.steam/debian-installation">> \o loginvdf_inner >>

native_steam_dir == <<"native_steam_dir">>
wine_steam_dir == <<"wine_steam_dir">>

(* The conventional place wait_for_loginvdf_update falls back to *)
DefaultSteamDir == XDG_DATA_HOME \o <<"Steam">>

(* As loginvdfs_checked, but Proton always checks all known places *)
LoginvdfsAllKnown(r) ==
    IF r.use_proton THEN loginusers_paths ELSE <<wine_steam_dir \o loginvdf_inner>>

(* loginvdfs_checked of wait_for_steam *)
loginvdfs_checked(r) ==
    IF r.use_proton
    THEN (IF r.native_steam_dir # "auto"
          THEN <<native_steam_dir \o loginvdf_inner>>
          ELSE loginusers_paths)
    ELSE <<wine_steam_dir \o loginvdf_inner>>

(* os.stat raises OSError for the file *)
Missing == -1

Mtimes == {Missing} \cup 1..MaxMtime

(* get_mtime: st_mtime of each file, 0 where os.stat fails *)
get_mtime(files) ==
    [i \in 1..Len(files) |-> IF files[i] = Missing THEN 0 ELSE files[i]]

MaxOf(ts) == CHOOSE t \in Range(ts) : \A u \in Range(ts) : u <= t

LastWithMax(ts) ==
    CHOOSE i \in 1..Len(ts) : ts[i] = MaxOf(ts) /\ \A j \in (i + 1)..Len(ts) : ts[j] # MaxOf(ts)

(* The index at which the loop over the timestamps breaks *)
FirstWithMax(ts) ==
    CHOOSE i \in 1..Len(ts) : ts[i] = MaxOf(ts) /\ \A j \in 1..(i - 1) : ts[j] # MaxOf(ts)

(* Indexes of the files that one scan of the poll finds advanced *)
Advanced(files, ts) ==
    {i \in 1..Len(files) : files[i] # Missing /\ files[i] > ts[i]}

KeepWaitingOnce(files, ts) == {}

(* The files at which one scan of the poll stops: the first advanced one *)
ScanHits(files, ts) ==
    {i \in Advanced(files, ts) : \A j \in Advanced(files, ts) : i <= j}

NoFallback(r) == <<>>

(* steamdir of wait_for_loginvdf_update when the poll timed out *)
TimeoutSteamdir(r) ==
    IF r.use_proton
    THEN (IF r.native_steam_dir = "auto" THEN DefaultSteamDir ELSE native_steam_dir)
    ELSE <<>>

SteamRequests ==
    [use_proton : BOOLEAN, native_steam_dir : {"auto", "custom"},
     steam_running : BOOLEAN, starter : {"detect"}]

InitSteam ==
    /\ req \in {r \in SteamRequests : ~r.use_proton => r.native_steam_dir = "auto"}
    /\ pc = "ws_get_mtime"
    /\ InitLaunch
    /\ mtimes \in [1..Len(loginvdfs_checked(req)) -> Mtimes]
    /\ loginvdfs_timestamps = <<>>
    /\ waittime = 0
    /\ ws_steamdir = <<>>
    /\ ws_how = "none"
    /\ shared_paths = <<>>
    /\ spawned = <<>>
    /\ InitMainIdle

launchvars == <<use_steam_runtime, tempdir, tempdirExists, args, cmd, procs, mainp,
                helper_outcome, builds, stops, shared_paths, spawned, mainvars,
                envvars>>

(* wait_for_steam: the candidate list and get_mtime *)
ws_get_mtime ==
    /\ pc = "ws_get_mtime"
    /\ loginvdfs_timestamps' = get_mtime(mtimes)
    /\ Log(Ev("DETECT_STEAM", "get_mtime"))
    /\ pc' = "ws_check_steam_process"
    /\ UNCHANGED <<req, outcome, clock, mtimes, waittime, ws_steamdir, ws_how, launchvars>>

(* wait_for_steam: check_steam_process says that Steam is running *)
ws_steam_is_running ==
    /\ pc = "ws_check_steam_process"
    /\ req.steam_running
    /\ IF req.use_proton
       THEN IF req.native_steam_dir = "auto"
            THEN ws_steamdir' =
                    Dirname(Dirname(loginvdfs_checked(req)[FirstWithMax(loginvdfs_timestamps)]))
            ELSE ws_steamdir' = native_steam_dir
       ELSE UNCHANGED ws_steamdir
    /\ ws_how' = "running"
    /\ pc' = "ws_return"
    /\ UNCHANGED <<req, outcome, clock, trace, mtimes, loginvdfs_timestamps, waittime,
                   launchvars>>

(* wait_for_steam: the Wine process list cannot be read (sys.exit) *)
ws_check_fails ==
    /\ pc = "ws_check_steam_process"
    /\ ~req.use_proton
    /\ Fatal
    /\ UNCHANGED <<req, clock, trace, detectvars, launchvars>>

(* wait_for_steam: Steam is not running and is started with Popen *)
ws_start_steam ==
    /\ pc = "ws_check_steam_process"
    /\ ~req.steam_running
    /\ \E ok \in BOOLEAN :
        IF ok
        THEN /\ Log(Ev("DETECT_STEAM", "Popen steam"))
             /\ waittime' = Timeout
             /\ pc' = "ws_wait"
             /\ UNCHANGED outcome
        ELSE /\ Crash
             /\ UNCHANGED <<trace, waittime>>
    /\ UNCHANGED <<req, clock, mtimes, loginvdfs_timestamps, ws_steamdir, ws_how,
                   launchvars>>

(* wait_for_loginvdf_update: one iteration of the while loop: time.sleep(1),
   waittime -= 1, then the loop over the candidates *)
ws_sleep_and_scan ==
    /\ pc = "ws_wait"
    /\ waittime > 0
    /\ waittime' = waittime - 1
    /\ clock' = clock + 1
    /\ IF ScanHits(mtimes, loginvdfs_timestamps) # {}
       THEN \E i \in ScanHits(mtimes, loginvdfs_timestamps) :
               /\ ws_steamdir' = Dirname(Dirname(loginvdfs_checked(req)[i]))
               /\ ws_how' = "updated"
               /\ pc' = "ws_return"
       ELSE UNCHANGED <<pc, ws_steamdir, ws_how>>
    /\ UNCHANGED <<req, outcome, trace, mtimes, loginvdfs_timestamps, launchvars>>

(* wait_for_loginvdf_update: the while loop ends without a detected change *)
ws_timeout ==
    /\ pc = "ws_wait"
    /\ waittime = 0
    /\ ws_steamdir' = TimeoutSteamdir(req)
    /\ ws_how' = "timeout"
    /\ pc' = "ws_return"
    /\ UNCHANGED <<req, outcome, clock, trace, mtimes, loginvdfs_timestamps, waittime,
                   launchvars>>

(* wait_for_steam returns and the starter goes on with its next stage *)
ws_return ==
    /\ pc = "ws_return"
    /\ outcome' = "done"
    /\ pc' = "end"
    /\ UNCHANGED <<req, clock, trace, detectvars, launchvars>>

(* Steam (or anything else) writes, creates or removes a candidate file *)
LoginvdfChanges ==
    /\ pc = "ws_wait"
    /\ \E i \in 1..Len(mtimes), t \in Mtimes :
        /\ t # mtimes[i]
        /\ mtimes' = [mtimes EXCEPT ![i] = t]
    /\ UNCHANGED <<req, pc, outcome, clock, trace, loginvdfs_timestamps, waittime,
                   ws_steamdir, ws_how, launchvars>>

wait_for_steam ==
    \/ ws_get_mtime
    \/ ws_steam_is_running
    \/ ws_check_fails
    \/ ws_start_steam
    \/ ws_sleep_and_scan
    \/ ws_timeout
    \/ ws_return

NextSteam ==
    \/ wait_for_steam
    \/ LoginvdfChanges

SpecSteam == InitSteam /\ [][NextSteam]_vars

(* The launcher's only thread keeps running; nothing is assumed about Steam *)
SpecSteamFair == SpecSteam /\ WF_vars(wait_for_steam)

(* wait_for_steam has returned to the Proton starter *)
ReturnedToProton == req.use_proton /\ ws_how \in {"running", "updated", "timeout"}

(* C32: under the Proton path wait_for_steam never returns a null install
   directory, whether Steam was running or had to be started, whether a login-file
   update was detected or the poll timed out, and whether the native Steam
   directory is 'auto' or configured; with a configured directory the result is
   always that directory. *)
C32_SteamdirNeverNone ==
    ReturnedToProton =>
        /\ ws_steamdir # <<>>
        /\ req.native_steam_dir # "auto" => ws_steamdir = native_steam_dir

C32_Witness ==
    /\ ReturnedToProton
    /\ pc = "end" /\ outcome = "done"
    /\ ws_how = "updated"
    /\ req.native_steam_dir = "custom"
    /\ ws_steamdir = <<"native_steam_dir">>

(* The modification time that counts for a candidate: 0 for a missing file *)
Recorded(i) == IF mtimes[i] = Missing THEN 0 ELSE mtimes[i]

ParentOfParent(path) == SubSeq(path, 1, Len(path) - 2)

(* C11: with Steam already running under Proton and automatic detection, the
   directory returned is the parent of the parent of a candidate file whose
   modification time (0 for a missing file) is the maximum over the candidates,
   and no earlier candidate has that maximum. *)
C11_MostRecentLoginChosen ==
    (ws_how = "running" /\ req.use_proton /\ req.native_steam_dir = "auto") =>
        \E i \in 1..Len(loginusers_paths) :
            /\ ws_steamdir = ParentOfParent(loginusers_paths[i])
            /\ \A j \in 1..Len(loginusers_paths) : Recorded(j) <= Recorded(i)
            /\ \A j \in 1..(i - 1) : Recorded(j) < Recorded(i)

C11_Witness ==
    /\ ws_how = "running" /\ req.use_proton /\ req.native_steam_dir = "auto"
    /\ pc = "end"
    /\ mtimes[1] = Missing /\ mtimes[2] = MaxMtime /\ mtimes[3] = MaxMtime
    /\ ws_steamdir = <<"~/.steam">>

(* C12 as stated: when Steam was started and the poll ran out without a detected
   change, wait_for_steam returns the default Steam directory and the launch goes
   on without an exception. *)
C12_TimeoutGivesDefaultDir ==
    ws_how = "timeout" =>
        /\ ws_steamdir = <<"XDG_DATA_HOME", "Steam">>
        /\ outcome \notin {"fatal", "crash"}

(* C12 as amended: when Steam was started and the poll ran out without a detected
   change, no exception propagates and the launch goes on; wait_for_steam returns
   the default Steam directory under Proton with automatic detection, the
   directory given by the user under Proton with an explicit Steam directory, and
   no directory (None) under Wine. *)
C12_TimeoutFallback ==
    ws_how = "timeout" =>
        /\ outcome \notin {"fatal", "crash"}
        /\ clock = 99
        /\ pc = "end" => outcome = "done"
        /\ (req.use_proton /\ req.native_steam_dir = "auto") =>
              ws_steamdir = <<"XDG_DATA_HOME", "Steam">>
        /\ (req.use_proton /\ req.native_steam_dir # "auto") =>
              ws_steamdir = <<"native_steam_dir">>
        /\ ~req.use_proton => ws_steamdir = <<>>

C12_Witness ==
    /\ ws_how = "timeout" /\ pc = "end" /\ outcome = "done"
    /\ ~req.steam_running
    /\ req.use_proton /\ req.native_steam_dir = "auto"
    /\ ws_steamdir = DefaultSteamDir

Launched == \E i \in 1..Len(trace) : trace[i] = Ev("DETECT_STEAM", "Popen steam")

AdvancedNow ==
    {i \in 1..Len(mtimes) : mtimes[i] # Missing /\ mtimes[i] > loginvdfs_timestamps[i]}

(* One scan of the poll: it ends the poll with the first advanced candidate if
   there is one, and goes back to waiting otherwise *)
ScanStep ==
    (pc = "ws_wait" /\ clock' = clock + 1) =>
        IF AdvancedNow # {}
        THEN /\ pc' = "ws_return"
             /\ \E i \in AdvancedNow :
                   /\ \A j \in AdvancedNow : i <= j
                   /\ ws_steamdir' = ParentOfParent(loginvdfs_checked(req)[i])
        ELSE pc' = "ws_wait" /\ ws_steamdir' = <<>>

(* C13: the baseline is recorded before Steam is launched; the poll sleeps one
   second at most 99 times; each scan stops the poll exactly when some candidate
   that can be stat'ed has a modification time above its baseline, returning the
   parent of the parent of the first such candidate; and wait_for_steam always
   comes to an end. *)
C13_PollBoundedFirstAdvance ==
    /\ [](/\ Launched => trace[1] = Ev("DETECT_STEAM", "get_mtime")
          /\ clock <= 99 /\ waittime >= 0
          /\ Launched => clock + waittime = 99)
    /\ [][ScanStep]_vars
    /\ <>(pc = "end")

C13_Witness ==
    /\ ws_how = "updated" /\ pc = "end"
    /\ clock >= 2
    /\ Len(mtimes) = 3 /\ mtimes[1] = Missing
    /\ ws_steamdir = <<"~/.steam/debian-installation">>

----------------------------------------------------------------------------
(* The shared paths for a library-folder manifest *)

library1 == <<"library1">>

(* A line of libraryfolders.vdf: its number of quotes, the first and the second
   quoted string, and whether the second contains os.path.sep *)
Line(quotes, key, value, sep) ==
    [quotes |-> quotes, key |-> key, value |-> value, sep |-> sep]

(* Keys are sequences of characters *)
PathKey == <<"p", "a", "t", "h">>
AppIdKey == <<"2", "2", "8", "9", "8", "0">>
StatsKey == <<"c", "o", "n", "t", "e", "n", "t", "s", "t", "a", "t", "s", "i", "d">>

ManifestLines ==
    { Line(4, <<"1">>, library1, TRUE),      \* old format: "1" "/path/to/library1"
      Line(4, PathKey, steamdir, TRUE),      \* new format, entry "0": the installation
      Line(4, PathKey, library1, TRUE),      \* new format: another library
      Line(4, <<"2">>, gamedir, TRUE),       \* a library equal to the game directory
      Line(4, AppIdKey, <<"12345">>, FALSE), \* new format: an AppId item
      Line(4, StatsKey, <<"xxx">>, FALSE),
      Line(4, <<"-", "1">>, <<"signed">>, TRUE), \* a signed number as the key
      Line(2, <<"1">>, <<>>, FALSE) }        \* new format: the key of a block

Manifests ==
    UNION {[1..n -> ManifestLines] : n \in 0..MaxLines}

Digits == {"0", "1", "2", "3", "4", "5", "6", "7", "8", "9"}

(* The key is a natural number: decimal digits only *)
IsNatural(key) == key # <<>> /\ \A i \in 1..Len(key) : key[i] \in Digits

(* int(elements[1]) succeeds: decimal digits after an optional sign (white space
   around the number and underscores between digits, which int() accepts as well,
   are in none of the keys drawn) *)
IsInt(key) ==
    IsNatural(IF key # <<>> /\ key[1] \in {"+", "-"} THEN Tail(key) ELSE key)

(* Whether the loop of get_steam_library_dirs appends the line's value *)
IsLibraryLine(l) ==
    /\ l.quotes = 4
    /\ IsInt(l.key) \/ l.key = PathKey
    /\ l.sep

RECURSIVE ManifestLibraries(_)
(* The directories get_steam_library_dirs appends for the lines of the manifest *)
ManifestLibraries(lines) ==
    IF lines = <<>> THEN <<>>
    ELSE (IF IsLibraryLine(Head(lines)) THEN <<Head(lines).value>> ELSE <<>>)
         \o ManifestLibraries(Tail(lines))

PathRequests ==
    {[Request("paths", sp, FALSE, fl, ver, usr, nsock, FALSE, 0, 0, "", FALSE)
        EXCEPT !.libs = ManifestLibraries(mf)] :
        sp \in BOOLEAN, fl \in BOOLEAN, ver \in LaunchVersions, usr \in BOOLEAN,
        nsock \in 0..1, mf \in Manifests}

InitPaths ==
    /\ req \in PathRequests
    /\ pc = "paths_spec"
    /\ InitCommon

(* __init__ of a StarterProton: the version check, then _init_args with
   _determine_shared_paths *)
Paths_init_args ==
    /\ pc = "paths_spec"
    /\ builds = <<>>
    /\ \E name \in TempNames :
        LET usr == UseSteamRuntime(req)
            td == TempdirAfterSharedPaths(req, usr, "None", name)
            shared == determine_shared_paths(req, usr, name)
            a1 == init_args(EmptyArgs, req, usr, shared, td)
        IN  /\ use_steam_runtime' = usr
            /\ tempdir' = td
            /\ tempdirExists' = (td # "None")
            /\ tempfiles' = IF td = tempdir THEN tempfiles ELSE CopiedFiles(req, td)
            /\ args' = a1
            /\ builds' = Append(builds, Built(TRUE, td, usr, shared, a1, a1))
    /\ UNCHANGED <<req, xrest, pc, outcome, cmd, procs, mainp, helper_outcome, clock,
                   trace, stops>>

NextPaths == Paths_init_args

SpecPaths == InitPaths /\ [][NextPaths]_vars

NoDuplicates(v) == \A i, j \in 1..Len(v) : v[i] = v[j] => i = j

(* C14: the shared-path list never contains the same path twice, and neither do
   the '--filesystem' values passed to the Steam Runtime. *)
C14_SharedPathsDistinct ==
    \A k \in 1..Len(builds) :
        /\ NoDuplicates(builds[k].shared)
        /\ builds[k].usr =>
              NoDuplicates([i \in 1..Len(builds[k].shared) |->
                               builds[k].layers.steamrt[2 * i + 1]])

----------------------------------------------------------------------------
(* The shared paths in the commands of a launch *)

(* An invocation through the Steam Runtime: its command starts with <runtime>/run,
   after the Flatpak layer if there is one *)
ThroughRuntime(argv) == \E i \in 1..Len(argv) : argv[i] = <<"steamruntimedir", "run">>

RECURSIVE RuntimePaths(_)
(* The paths that follow the '--filesystem' flags of a command, in order *)
RuntimePaths(argv) ==
    IF Len(argv) < 2 THEN <<>>
    ELSE IF Head(argv) = <<"--filesystem">>
         THEN <<argv[2]>> \o RuntimePaths(SubSeq(argv, 3, Len(argv)))
         ELSE RuntimePaths(Tail(argv))

(* C15: when the first child process of a Proton launch is spawned the shared
   paths have been computed, and every invocation through the Steam Runtime
   carries exactly these paths in its '--filesystem' flags, whenever in the
   launch it is spawned. *)
C15_SharedPathsFixedBeforeSpawn ==
    spawned # <<>> =>
        /\ Did("BUILD", "_init_args")
        /\ \A k \in 1..Len(spawned) :
              ThroughRuntime(spawned[k]) => RuntimePaths(spawned[k]) = shared_paths
        /\ use_steam_runtime => shared_paths # <<>>

C15_Witness ==
    /\ Len(spawned) >= 5
    /\ use_steam_runtime
    /\ Did("DESKTOP_DISABLE", "set_wine_desktop_registry")
    /\ Did("D3D", "activate_native_d3dcompiler_47")
    /\ \A k \in 2..Len(spawned) : ThroughRuntime(spawned[k])
    /\ Len(shared_paths) >= 6

----------------------------------------------------------------------------
(* main: the argument checks, the update and the choice of the starter *)

Artifacts == {"inject_exe", "proton", "run", "game"}

(* Args after parse_args: the options as given on the command line *)
MainFlags ==
    [proton : BOOLEAN, wine : BOOLEAN, update : BOOLEAN, start : BOOLEAN,
     downgrade : BOOLEAN, singleplayer : BOOLEAN]

Actions == {"none", "start", "update", "downgrade", "ustart", "dstart"}

Games == {"none", "ets2mp", "ets2"}

MainRequests ==
    [linux : BOOLEAN, without_steam_runtime : BOOLEAN, skip_update_proton : BOOLEAN,
     given : MainFlags, action : Actions, game : Games, starter : {"main"}]

InitMain ==
    /\ req \in MainRequests
    /\ pc = "main_parse"
    /\ InitDetection
    /\ InitLaunch
    /\ shared_paths = <<>>
    /\ spawned = <<>>
    /\ flags = req.given
    /\ disk \in SUBSET Artifacts
    /\ starters = <<>>

(* process_actions_gamenames: the action of the new syntax *)
ProcessAction(f, action) ==
    [f EXCEPT !.start = @ \/ action \in {"start", "ustart", "dstart"},
              !.update = @ \/ action \in {"update", "ustart"},
              !.downgrade = @ \/ action \in {"downgrade", "dstart"}]

(* process_actions_gamenames: the game name of the new syntax; the names without
   "mp" are single player *)
ProcessGame(f, game) == [f EXCEPT !.singleplayer = @ \/ game = "ets2"]

(* sys.exit(message) of main, with what the message is about *)
FatalFor(what) ==
    /\ Fatal
    /\ Log(Ev("FATAL", what))

othermain == <<req, clock, detectvars, envvars, shared_paths, use_steam_runtime, tempdir,
               tempdirExists, args, cmd, procs, mainp, helper_outcome, builds, stops>>

(* main: parse_args and process_actions_gamenames; main makes no other change to
   the actions or to the choice of Proton or Wine *)
main_parse_args ==
    /\ pc = "main_parse"
    /\ flags' = ProcessGame(ProcessAction(flags, req.action), req.game)
    /\ pc' = "main_inject"
    /\ UNCHANGED <<othermain, outcome, trace, spawned, disk, starters>>

(* main: the check for the inject program *)
main_inject_check ==
    /\ pc = "main_inject"
    /\ IF "inject_exe" \notin disk
       THEN FatalFor("inject_exe missing")
       ELSE pc' = "main_check_args" /\ UNCHANGED <<outcome, trace>>
    /\ UNCHANGED <<othermain, spawned, mainvars>>

(* check_args_errors: the game must be present to start without updating, and an
   account is needed to update *)
main_check_args_errors ==
    /\ pc = "main_check_args"
    /\ \E account \in BOOLEAN :
        IF flags.start /\ ~flags.update /\ "game" \notin disk
        THEN FatalFor("game missing")
        ELSE IF flags.update /\ ~account
             THEN FatalFor("account missing")
             ELSE pc' = "main_update_game" /\ UNCHANGED <<outcome, trace>>
    /\ UNCHANGED <<othermain, spawned, mainvars>>

(* What SteamCMD installs: the game, and with Proton also Proton and the Steam
   Runtime unless they are skipped *)
Installed(f, r) ==
    {"game"}
    \cup (IF f.proton /\ ~r.skip_update_proton THEN {"proton"} ELSE {})
    \cup (IF f.proton /\ ~r.skip_update_proton /\ ~r.without_steam_runtime
          THEN {"run"} ELSE {})

(* The child processes of update_game up to the first SteamCMD run; with Wine
   check_args_errors has set check_windows_steam *)
UpdateChildren(f, r) ==
    (IF f.wine THEN <<<<Tok("wine"), Tok("--version")>>>> ELSE <<>>)
    \o (IF ~f.proton THEN <<<<Tok("wine"), Tok("winepath")>>>> ELSE <<>>)
    \o (IF r.linux THEN <<<<Tok("pgrep")>>>> ELSE <<>>)
    \o <<<<Tok("steamcmd")>>>>

(* main: update_game when updating; a failure leaves after one of its children *)
main_update_game ==
    /\ pc = "main_update_game"
    /\ IF flags.update
       THEN LET children == UpdateChildren(flags, req)
            IN  \/ /\ Started(children)
                   /\ disk' = disk \cup Installed(flags, req)
                   /\ pc' = "main_update_mod"
                   /\ UNCHANGED <<outcome, trace>>
                \/ \E n \in 1..Len(children) :
                      /\ Started(SubSeq(children, 1, n))
                      /\ FatalFor("SteamCMD")
                      /\ UNCHANGED disk
       ELSE /\ pc' = "main_update_mod"
            /\ UNCHANGED <<outcome, trace, spawned, disk>>
    /\ UNCHANGED <<othermain, flags, starters>>

(* main: update_mod for multiplayer *)
main_update_mod ==
    /\ pc = "main_update_mod"
    /\ \E ok \in BOOLEAN :
        IF ~flags.singleplayer /\ ~ok
        THEN FatalFor("mod files")
        ELSE pc' = "main_start_checks" /\ UNCHANGED <<outcome, trace>>
    /\ UNCHANGED <<othermain, spawned, mainvars>>

AlwaysPresent(f, r, d) == "none"

(* main: the file whose absence stops a start with Proton, or "none" *)
RunnerMissing(f, r, d) ==
    IF ~f.proton THEN "none"
    ELSE IF "proton" \notin d THEN "proton"
    ELSE IF ~r.without_steam_runtime /\ "run" \notin d THEN "run"
    ELSE "none"

(* main: the checks before starting *)
main_start_checks ==
    /\ pc = "main_start_checks"
    /\ IF ~flags.start
       THEN pc' = "main_exit" /\ UNCHANGED <<outcome, trace>>
       ELSE IF RunnerMissing(flags, req, disk) # "none"
            THEN FatalFor(RunnerMissing(flags, req, disk))
            ELSE \E writable \in BOOLEAN, sdl2 \in BOOLEAN :
                    IF flags.proton /\ ~req.without_steam_runtime /\ ~writable
                    THEN FatalFor("Steam Runtime directory")
                    ELSE IF ~sdl2
                         THEN FatalFor("SDL2")
                         ELSE pc' = "main_starter" /\ UNCHANGED <<outcome, trace>>
    /\ UNCHANGED <<othermain, spawned, mainvars>>

(* main: the starter is constructed and run; how run ends is the starter's affair *)
main_starter ==
    /\ pc = "main_starter"
    /\ starters' = Append(starters, IF flags.proton THEN "proton" ELSE "wine")
    /\ Started(<<<<Tok(IF flags.proton THEN "python3" ELSE "wine")>>>>)
    /\ \E how \in {"done", "fatal", "crash"} :
        IF how = "done"
        THEN pc' = "main_exit" /\ UNCHANGED outcome
        ELSE outcome' = how /\ pc' = "end"
    /\ Log(Ev("RUN_MAIN", "starter.run"))
    /\ UNCHANGED <<othermain, flags, disk>>

(* main: sys.exit() *)
main_exit ==
    /\ pc = "main_exit"
    /\ outcome' = "done"
    /\ pc' = "end"
    /\ UNCHANGED <<othermain, trace, spawned, mainvars>>

NextMain ==
    \/ main_parse_args
    \/ main_inject_check
    \/ main_check_args_errors
    \/ main_update_game
    \/ main_update_mod
    \/ main_start_checks
    \/ main_starter
    \/ main_exit

SpecMain == InitMain /\ [][NextMain]_vars

(* C16: once the arguments are processed exactly one of Proton and Wine is chosen
   unless both were requested, which is fatal; with neither requested the platform
   decides; and a launch constructs one starter, of the chosen kind, and no
   second one. *)
C16_ExactlyOneRunner ==
    /\ (pc # "main_parse" /\ req.given.proton /\ req.given.wine) =>
          outcome = "fatal" /\ starters = <<>>
    /\ (pc # "main_parse" /\ ~(req.given.proton /\ req.given.wine)) =>
          /\ flags.proton # flags.wine
          /\ (~req.given.proton /\ ~req.given.wine) => (flags.proton = req.linux)
    /\ Len(starters) <= 1
    /\ starters # <<>> =>
          /\ starters[1] = (IF flags.proton THEN "proton" ELSE "wine")
          /\ flags.proton # flags.wine
    /\ (pc = "end" /\ outcome = "done" /\ flags.start) => Len(starters) = 1

MissingArtifact ==
    {what \in {"inject_exe missing", "proton", "run"} : Did("FATAL", what)}

(* C20 as stated: when the launcher exits because the inject program, the
   'proton' script or the Steam Runtime's 'run' is missing, no child process has
   been spawned, whichever actions were requested. *)
C20_MissingFileBeforeAnyChild ==
    MissingArtifact # {} => (outcome = "fatal" /\ spawned = <<>>)

(* C20 as amended: a missing inject program stops the launcher before any child
   process, whichever actions were requested.  The 'proton' script and the Steam
   Runtime's 'run' are checked only when starting, after the update: when one is
   missing then, the launcher exits non-zero before a starter is constructed, and
   the only child processes spawned before are those of a requested update.  No
   starter is constructed while one of the files it needs is missing. *)
C20_MissingFileBeforeStarter ==
    /\ MissingArtifact # {} =>
          /\ outcome = "fatal"
          /\ starters = <<>>
          /\ spawned # <<>> => (flags.update /\ ~Did("FATAL", "inject_exe missing"))
    /\ starters # <<>> =>
          /\ "inject_exe" \in disk
          /\ flags.proton => "proton" \in disk
          /\ (flags.proton /\ ~req.without_steam_runtime) => "run" \in disk

C20_Witness ==
    /\ Did("FATAL", "proton")
    /\ flags.update /\ flags.start /\ req.skip_update_proton
    /\ spawned # <<>>

----------------------------------------------------------------------------
(* The temporary directory and the ends of a launch *)

(* C17: whenever the temporary directory for sharing /usr has been created, the
   cleanup step has run, and with it the removal of the directory, when the
   launch terminates, on every exit path. *)
C17_TempdirRemovedByCleanup ==
    (Terminated /\ tempdir # "None") => Did("CLEANUP", "_cleanup")

CleanupOnSigint(r) == IF r.starter = "proton" THEN "proton_wait" ELSE "wine_cleanup"

(* main: signal.signal(SIGINT, SIG_DFL), the interrupt keeps its default action
   and ends the launcher where it stands *)
on_sigint(r) == "end"

(* A console interrupt arrives while the launcher runs *)
Interrupt ==
    /\ outcome = "running"
    /\ pc # "end"
    /\ pc' = on_sigint(req)
    /\ outcome' = IF on_sigint(req) = "end" THEN "interrupted" ELSE outcome
    /\ Log(Ev("INTERRUPT", "SIGINT"))
    /\ UNCHANGED <<req, xvars, use_steam_runtime, tempdir, tempdirExists, args, cmd,
                   procs, mainp, helper_outcome, clock, builds, stops>>

NextInterrupt == Next \/ Interrupt

SpecInterrupt == Init /\ [][NextInterrupt]_vars

InterruptedMain == Did("INTERRUPT", "SIGINT") /\ mainp.st = "running"

(* C18 as stated: when a console interrupt arrives while the main process is
   running, the launch still ends with its cleanup done: the cleanup step has
   run, desktop-disable has run when desktop-enable ran, and the helpers are
   reaped. *)
C18_CleanupOnInterrupt ==
    (Terminated /\ InterruptedMain) =>
        /\ Did("CLEANUP", "_cleanup")
        /\ Ran("DESKTOP_ENABLE") => Ran("DESKTOP_DISABLE")
        /\ AllReaped

(* C18 as amended: a console interrupt ends the launcher at once; when it arrives
   while the main process is running, no cleanup step and no desktop-disable have
   run, and a temporary directory that was created has not been removed by the
   launcher. *)
C18_InterruptEndsWithoutCleanup ==
    Did("INTERRUPT", "SIGINT") =>
        /\ outcome = "interrupted"
        /\ pc = "end"
        /\ trace[Len(trace)] = Ev("INTERRUPT", "SIGINT")
        /\ mainp.st = "running" =>
              /\ ~Ran("CLEANUP")
              /\ ~Ran("DESKTOP_DISABLE")
              /\ tempdir # "None" => tempdirExists

C18_Witness ==
    /\ outcome = "interrupted"
    /\ mainp.st = "running"
    /\ req.starter = "proton"
    /\ Ran("DESKTOP_ENABLE")
    /\ tempdir # "None" /\ tempdirExists
    /\ \E i \in 1..Len(procs) : procs[i].st = "running"

(* The launcher's exit code: sys.exit() at the end of main gives 0, sys.exit with
   a message and an uncaught exception give 1 *)
ExitCode == IF outcome = "done" THEN 0 ELSE 1

SpawnFailed == mainp.st = "exec_failed" \/ helper_outcome = "exec_failed"

(* C19: the launcher exits with 0 whenever the main process was run, whatever its
   exit code, and also when the main process or the helper command could not be
   spawned; it exits non-zero only through a reported setup failure. *)
C19_ExitCodeZeroUnlessSetupFails ==
    Terminated =>
        /\ mainp.st = "exited" => ExitCode = 0
        /\ SpawnFailed => ExitCode = 0
        /\ ExitCode # 0 => outcome = "fatal"

----------------------------------------------------------------------------
(* The helpers and the main launch *)

HelperStartPcs == {"helper_early", "helper_normal", "wine_bridge", "wine_executables"}

MainSpawnPcs == {"helper_main", "wine_main"}

(* C21: a failure of a helper does not abort the main launch: no step taken while
   the helpers are being started, a failed spawn and an exit of a helper included,
   ends the launch or passes over the spawn of the main process. *)
C21_HelperFailureDoesNotAbort ==
    [][(pc \in HelperStartPcs) =>
          (outcome' = "running" /\ pc' \in HelperStartPcs \cup MainSpawnPcs)]_vars

----------------------------------------------------------------------------
(* The presence bridge: the configuration and the two starters' decisions *)

(* "mp" in Args.game *)
IsMultiplayerGame(game) == game \in {"ets2mp", "atsmp"}

KeepGivenOption(without, cfg_without, game, wants) == without

(* ConfigFile._configure_rich_presence: Args.without_wine_discord_ipc_bridge after
   it; cfg_without is "without-rich-presence" of the game's section and wants the
   number of third-party sections with "wants-rich-presence" *)
configure_rich_presence(without, cfg_without, game, wants) ==
    IF ~without /\ (cfg_without \/ (~IsMultiplayerGame(game) /\ wants = 0))
    THEN TRUE
    ELSE without

BridgeRequests ==
    [starter : {"proton", "wine"}, game : {"ets2mp", "ets2"}, without : BOOLEAN,
     cfg_without : BOOLEAN, wants : 0..MaxExe, nsock : 0..1]

InitBridge ==
    /\ req \in BridgeRequests
    /\ pc = "bridge_config"
    /\ InitDetection
    /\ InitLaunch
    /\ shared_paths = <<>>
    /\ spawned = <<>>
    /\ flags = [without_wine_discord_ipc_bridge |-> req.without]
    /\ disk = {}
    /\ starters = <<>>

(* The launch the starters see once the configuration is read *)
BridgeLaunch(r, f) ==
    Request(r.starter, ~IsMultiplayerGame(r.game), FALSE, FALSE, <<MinMajor, MinMinor>>,
            FALSE, r.nsock, f.without_wine_discord_ipc_bridge, r.wants, 0, "", FALSE)

otherbridge == <<req, envvars, use_steam_runtime, tempdir, tempdirExists, args, mainp,
                 helper_outcome, clock, builds, stops, detectvars, disk, starters,
                 shared_paths, spawned>>

(* ConfigFile.__init__: _configure_rich_presence *)
Bridge_configure ==
    /\ pc = "bridge_config"
    /\ flags' = [without_wine_discord_ipc_bridge |->
                    configure_rich_presence(req.without, req.cfg_without, req.game,
                                            req.wants)]
    /\ pc' = "bridge_args"
    /\ UNCHANGED <<otherbridge, outcome, cmd, procs, trace>>

(* StarterProton: _init_args and _setup_helper_args give the helper's command;
   setup_wine_discord_ipc_bridge exits when the bridge cannot be downloaded *)
Bridge_setup_helper_args ==
    /\ pc = "bridge_args"
    /\ req.starter = "proton"
    /\ LET r == BridgeLaunch(req, flags)
           usr == UseSteamRuntime(r)
           a == init_args(EmptyArgs, r, usr, determine_shared_paths(r, usr, "tmp-a"),
                          "None")
       IN  \E ok \in BOOLEAN :
            IF ProtonStartsBridge(r) /\ ~ok
            THEN FatalFor("winediscordipcbridge.exe") /\ UNCHANGED cmd
            ELSE /\ cmd' = HelperArgs([a EXCEPT !.steamrt = setup_helper_args(@, r, "None")])
                 /\ pc' = "bridge_helper"
                 /\ UNCHANGED <<outcome, trace>>
    /\ UNCHANGED <<otherbridge, flags, procs>>

(* steamruntime_helper.main: start_thirdparty_programs(args.early_executable, ...) *)
Bridge_helper_start_early ==
    /\ pc = "bridge_helper"
    /\ LET av == HelperArgv(cmd)
           exes == early_executable(av)
       IN  procs' = [k \in 1..Len(exes) |->
                        Spawn("early", proton_run(av) \o <<exes[k]>>, clock)]
    /\ outcome' = "done"
    /\ pc' = "end"
    /\ UNCHANGED <<otherbridge, flags, cmd, trace>>

(* StarterWine.run: the presence bridge *)
Bridge_wine ==
    /\ pc = "bridge_args"
    /\ req.starter = "wine"
    /\ IF WineStartsBridge(BridgeLaunch(req, flags))
       THEN \E ok \in BOOLEAN :
              IF ok
              THEN /\ procs' = <<Spawn("early", <<Tok("wine"), ipcbridge>>, clock)>>
                   /\ outcome' = "done"
                   /\ pc' = "end"
                   /\ UNCHANGED trace
              ELSE FatalFor("winediscordipcbridge.exe") /\ UNCHANGED procs
       ELSE /\ outcome' = "done"
            /\ pc' = "end"
            /\ UNCHANGED <<procs, trace>>
    /\ UNCHANGED <<otherbridge, flags, cmd>>

NextBridge ==
    \/ Bridge_configure
    \/ Bridge_setup_helper_args
    \/ Bridge_helper_start_early
    \/ Bridge_wine

SpecBridge == InitBridge /\ [][NextBridge]_vars

BridgeStarted ==
    \E i \in 1..Len(procs) : procs[i].argv[Len(procs[i].argv)] = ipcbridge

FeatureEnabled == ~req.without /\ ~req.cfg_without

(* C22 as stated: the presence bridge is started only if the mode is multiplayer,
   the feature is not disabled and at least one socket was discovered, with the
   Proton starter and with the Wine starter. *)
C22_BridgeOnlyIfAllThree ==
    BridgeStarted =>
        (IsMultiplayerGame(req.game) /\ FeatureEnabled /\ req.nsock > 0)

(* C22 as amended: the presence bridge is started exactly when the feature is not
   disabled, the mode is multiplayer or a third-party program wants rich presence,
   and, with the Proton starter only, at least one socket was discovered. *)
C22_BridgeStartedExactlyWhen ==
    LET wanted == /\ FeatureEnabled
                  /\ IsMultiplayerGame(req.game) \/ req.wants > 0
                  /\ req.starter = "proton" => req.nsock > 0
    IN  /\ BridgeStarted => wanted
        /\ (pc = "end" /\ outcome = "done") => (BridgeStarted <=> wanted)

C22_Witness ==
    /\ BridgeStarted
    /\ req.starter = "wine"
    /\ ~IsMultiplayerGame(req.game)
    /\ req.nsock = 0

----------------------------------------------------------------------------
(* The environments of the starters and of the processes they start.  An
   environment is a function from variable names to values, a value the sequence
   of its pieces with the ':' between them. *)

EnvSet(e, k, v) == [x \in DOMAIN e \cup {k} |-> IF x = k THEN v ELSE e[x]]

EnvDel(e, k) == [x \in DOMAIN e \ {k} |-> e[x]]

(* os.path.join(steamdir, File.overlayrenderer_inner) *)
overlayrenderer(dir) == Join(dir, "ubuntu12_64/gameoverlayrenderer.so")

(* Args.steamid *)
steamid(game) == IF game = "ats" THEN <<"270880">> ELSE <<"227300">>

(* os.environ of the launcher: any of these variables, empty or not *)
ParentEnvs ==
    UNION {[K -> {<<>>, <<"inherited">>}] :
              K \in SUBSET {"LD_PRELOAD", "SteamAppId", "WINEDLLOVERRIDES"}}

SetupGameEnvReplacePreload(e, dir, r) ==
    LET p == IF r.disable_proton_overlay THEN e
             ELSE EnvSet(e, "LD_PRELOAD", overlayrenderer(dir))
    IN  EnvSet(EnvSet(EnvSet(p, "SteamAppId", steamid(r.game)),
                      "SteamGameId", steamid(r.game)),
               "PROTON_USE_WINED3D", IF r.use_wined3d THEN <<"1">> ELSE <<"0">>)

(* StarterProton.setup_game_env *)
setup_game_env(e, dir, r) ==
    LET p == IF r.disable_proton_overlay THEN e
             ELSE IF "LD_PRELOAD" \in DOMAIN e
                  THEN EnvSet(e, "LD_PRELOAD",
                              e["LD_PRELOAD"] \o <<":">> \o overlayrenderer(dir))
                  ELSE EnvSet(e, "LD_PRELOAD", overlayrenderer(dir))
    IN  EnvSet(EnvSet(EnvSet(p, "SteamAppId", steamid(r.game)),
                      "SteamGameId", steamid(r.game)),
               "PROTON_USE_WINED3D", IF r.use_wined3d THEN <<"1">> ELSE <<"0">>)

(* start_thirdparty_programs: the copy of os.environ without LD_PRELOAD *)
thirdparty_env(e) == IF "LD_PRELOAD" \in DOMAIN e THEN EnvDel(e, "LD_PRELOAD") ELSE e

EnvRequests ==
    [starter : {"proton", "wine"}, parent : ParentEnvs, game : {"ets2", "ats"},
     disable_proton_overlay : BOOLEAN, use_wined3d : BOOLEAN, bridge : BOOLEAN,
     nexe : 0..MaxExe]

InitEnv ==
    /\ req \in EnvRequests
    /\ pc = "env_init"
    /\ InitDetection
    /\ InitStarterFields
    /\ InitMainIdle
    /\ shared_paths = <<>>
    /\ spawned = <<>>
    /\ env = req.parent
    /\ penvs = <<>>
    /\ registry = <<>>
    /\ tempfiles = {}
    /\ pipe = NoPipe
    /\ dl = NoDownload

otherenv == <<req, detectvars, mainvars, registry, tempfiles, pipe, dl, shared_paths, spawned, use_steam_runtime,
              tempdir, tempdirExists, args, cmd, procs, mainp, helper_outcome, clock,
              trace, builds, stops>>

(* A child process is started with the given environment *)
StartedWith(who, e) == [who |-> who, env |-> e]

(* StarterProton.__init__: self._env *)
Env_proton_init ==
    /\ pc = "env_init"
    /\ req.starter = "proton"
    /\ env' = EnvSet(EnvSet(env, "STEAM_COMPAT_DATA_PATH", prefixdir),
                     "STEAM_COMPAT_CLIENT_INSTALL_PATH", steamdir)
    /\ pc' = "env_game"
    /\ UNCHANGED <<otherenv, outcome, penvs>>

(* StarterProton.run: setup_game_env(self._env, steamdir) *)
Env_proton_setup_game_env ==
    /\ pc = "env_game"
    /\ env' = setup_game_env(env, steamdir, req)
    /\ pc' = "env_popen"
    /\ UNCHANGED <<otherenv, outcome, penvs>>

(* StarterProton.run: Popen(helper_args, env=self._env); the helper script's
   os.environ is that environment *)
Env_proton_popen ==
    /\ pc = "env_popen"
    /\ penvs' = Append(penvs, StartedWith("script", env))
    /\ pc' = "env_early"
    /\ UNCHANGED <<otherenv, outcome, env>>

(* steamruntime_helper.main: start_thirdparty_programs(args.early_executable, ...) *)
Env_helper_start_early ==
    /\ pc = "env_early"
    /\ penvs' = penvs \o [k \in 1..(IF req.bridge THEN 1 ELSE 0) |->
                             StartedWith("helper", thirdparty_env(env))]
    /\ pc' = "env_normal"
    /\ UNCHANGED <<otherenv, outcome, env>>

(* steamruntime_helper.main: start_thirdparty_programs(args.executable, ...) *)
Env_helper_start_normal ==
    /\ pc = "env_normal"
    /\ penvs' = penvs \o [k \in 1..req.nexe |->
                             StartedWith("helper", thirdparty_env(env))]
    /\ pc' = "env_main"
    /\ UNCHANGED <<otherenv, outcome, env>>

(* steamruntime_helper.main: Popen(args.game_arguments, env=os.environ.copy()) *)
Env_helper_main ==
    /\ pc = "env_main"
    /\ penvs' = Append(penvs, StartedWith("main", env))
    /\ outcome' = "done"
    /\ pc' = "end"
    /\ UNCHANGED <<otherenv, env>>

(* StarterWine.__init__: self._env *)
Env_wine_init ==
    /\ pc = "env_init"
    /\ req.starter = "wine"
    /\ env' = EnvSet(EnvSet(EnvSet(env, "WINEDEBUG", <<"-all">>),
                            "WINEARCH", <<"win64">>),
                     "WINEPREFIX", prefixdir)
    /\ pc' = "env_wine_helpers"
    /\ UNCHANGED <<otherenv, outcome, penvs>>

(* StarterWine.run: the Popen of the bridge and of the third-party executables,
   each with env=self._env *)
Env_wine_helpers ==
    /\ pc = "env_wine_helpers"
    /\ penvs' = penvs \o [k \in 1..((IF req.bridge THEN 1 ELSE 0) + req.nexe) |->
                             StartedWith("helper", env)]
    /\ pc' = "env_wine_main"
    /\ UNCHANGED <<otherenv, outcome, env>>

(* StarterWine.run: WINEDLLOVERRIDES when missing, then Popen(wine_args, env=self._env) *)
Env_wine_main ==
    /\ pc = "env_wine_main"
    /\ env' = IF "WINEDLLOVERRIDES" \notin DOMAIN env
              THEN EnvSet(env, "WINEDLLOVERRIDES", <<>>)
              ELSE env
    /\ penvs' = Append(penvs, StartedWith("main", env'))
    /\ outcome' = "done"
    /\ pc' = "end"
    /\ UNCHANGED otherenv

NextEnv ==
    \/ Env_proton_init
    \/ Env_proton_setup_game_env
    \/ Env_proton_popen
    \/ Env_helper_start_early
    \/ Env_helper_start_normal
    \/ Env_helper_main
    \/ Env_wine_init
    \/ Env_wine_helpers
    \/ Env_wine_main

SpecEnv == InitEnv /\ [][NextEnv]_vars

StartedAs(who) == {i \in 1..Len(penvs) : penvs[i].who = who}

(* C23: no helper process is started with LD_PRELOAD in its environment, and the
   main process is started with the launcher's LD_PRELOAD, with the helper script
   and with the Wine starter. *)
C23_HelpersWithoutPreload ==
    /\ \A i \in StartedAs("helper") : "LD_PRELOAD" \notin DOMAIN penvs[i].env
    /\ \A i \in StartedAs("main") :
          "LD_PRELOAD" \in DOMAIN env =>
              /\ "LD_PRELOAD" \in DOMAIN penvs[i].env
              /\ penvs[i].env["LD_PRELOAD"] = env["LD_PRELOAD"]

Overridden ==
    {"SteamAppId", "SteamGameId", "PROTON_USE_WINED3D", "STEAM_COMPAT_DATA_PATH",
     "STEAM_COMPAT_CLIENT_INSTALL_PATH"}

ProtonEnvBuilt == req.starter = "proton" /\ pc \notin {"env_init", "env_game"}

(* C27: the environment built for the Proton launch is the parent environment with
   SteamAppId and SteamGameId set to the app id, PROTON_USE_WINED3D,
   STEAM_COMPAT_DATA_PATH and STEAM_COMPAT_CLIENT_INSTALL_PATH set, and, unless
   the overlay is disabled, LD_PRELOAD set to the inherited value followed by ':'
   and the overlay renderer, or to the overlay renderer alone when it was not
   set; with the overlay disabled LD_PRELOAD is as inherited, and every other
   variable is unchanged. *)
C27_ProtonEnvironment ==
    ProtonEnvBuilt =>
        LET parent == req.parent
            preload == IF req.disable_proton_overlay THEN {} ELSE {"LD_PRELOAD"}
        IN  /\ DOMAIN env = DOMAIN parent \cup Overridden \cup preload
            /\ env["SteamAppId"] = steamid(req.game)
            /\ env["SteamGameId"] = env["SteamAppId"]
            /\ env["PROTON_USE_WINED3D"] = (IF req.use_wined3d THEN <<"1">> ELSE <<"0">>)
            /\ env["STEAM_COMPAT_DATA_PATH"] = prefixdir
            /\ env["STEAM_COMPAT_CLIENT_INSTALL_PATH"] = steamdir
            /\ ~req.disable_proton_overlay =>
                  env["LD_PRELOAD"] =
                      (IF "LD_PRELOAD" \in DOMAIN parent
                       THEN parent["LD_PRELOAD"] \o <<":">> \o overlayrenderer(steamdir)
                       ELSE overlayrenderer(steamdir))
            /\ \A k \in DOMAIN env \ (Overridden \cup preload) : env[k] = parent[k]
            /\ \A i \in StartedAs("script") \cup StartedAs("main") : penvs[i].env = env

C27_Witness ==
    /\ ProtonEnvBuilt
    /\ pc = "end"
    /\ ~req.disable_proton_overlay
    /\ "LD_PRELOAD" \in DOMAIN req.parent
    /\ req.parent["LD_PRELOAD"] = <<"inherited">>
    /\ "WINEDLLOVERRIDES" \in DOMAIN req.parent
    /\ \E i \in StartedAs("main") :
          penvs[i].env["LD_PRELOAD"] =
              <<"inherited", ":", "steamdir", "ubuntu12_64/gameoverlayrenderer.so">>

----------------------------------------------------------------------------
(* The preparation of the prefix *)

WinebootAt == {i \in 1..Len(trace) : trace[i] = Ev("PREPARE_PREFIX", "wineboot")}

AfterPrefix ==
    {i \in 1..Len(trace) :
        trace[i].stage \in {"D3D", "DESKTOP_ENABLE", "START_HELPERS", "RUN_MAIN"}}

PastPrefix ==
    req.starter = "proton" /\ pc \notin {"proton_init", "proton_init_args", "proton_prefix"}

(* In the Proton starter the prefix is prepared before anything else of run:
   wineboot runs at most once, it has run whenever native d3dcompiler setup is
   required, it comes before the d3dcompiler activation, desktop-enable and the
   spawn of the main process, and when it fails the launcher exits fatally with
   none of those steps done. *)
PrefixPreparedFirst ==
    req.starter = "proton" =>
        /\ Cardinality(WinebootAt) <= 1
        /\ \A i \in WinebootAt : \A j \in AfterPrefix : i < j
        /\ PastPrefix => Ran("PREPARE_PREFIX")
        /\ (PastPrefix /\ req.activate_d3d) => WinebootAt # {}
        /\ (PastPrefix /\ outcome = "running") => "bin/wine" \in disk
        /\ Ran("D3D") => WinebootAt # {}
        /\ AfterPrefix # {} => Ran("PREPARE_PREFIX")
        /\ (pc = "end" /\ trace[Len(trace)] = Ev("PREPARE_PREFIX", "wineboot")) =>
              /\ outcome = "fatal"
              /\ AfterPrefix = {}
              /\ mainp = NoMain
              /\ procs = <<>>

WinebootWhenNeeded ==
    (pc = "proton_prefix" /\ "bin/wine" \notin disk) =>
        trace' = Append(trace, Ev("PREPARE_PREFIX", "wineboot"))

(* C24: the prefix directory is prepared first in the Proton starter, as stated
   above, and the step that prepares it runs wineboot whenever the runner's wine
   binary is not accessible. *)
C24_PrefixPreparedFirst == []PrefixPreparedFirst /\ [][WinebootWhenNeeded]_vars

C24_Witness ==
    /\ req.starter = "proton"
    /\ outcome = "done"
    /\ WinebootAt # {}
    /\ ~req.activate_d3d
    /\ Ran("DESKTOP_ENABLE")
    /\ mainp.st = "exited"


----------------------------------------------------------------------------
(* The sandbox layer of the command of a newly constructed starter *)

(* The Steam Runtime layer of build b, read token by token: '<runtime>/run', a
   '--filesystem <path>' pair per shared path in list order, '--', the interpreter *)
SandboxLayerExact(b) ==
    LET L == b.layers.steamrt
        n == Len(b.shared)
    IN  /\ Len(L) = 2 * n + 3
        /\ L[1] = steamruntimedir \o <<"run">>
        /\ \A i \in 1..n : L[2 * i] = <<"--filesystem">> /\ L[2 * i + 1] = b.shared[i]
        /\ L[2 * n + 2] = <<"--">>
        /\ L[2 * n + 3] = <<"python3">>
        /\ Count(L, IsFilesystemFlag) = n
        /\ \A i \in 1..Len(L) : IsFilesystemFlag(L[i]) => i < 2 * n + 2

(* The helper script follows the layer, and the command is the outer layers, the
   helper with its options, '--' and the Proton command *)
CompleteCommand(b) ==
    LET L == b.layers.steamrt
        rt == b.args.steamrt
    IN  /\ Len(rt) > Len(L)
        /\ SubSeq(rt, 1, Len(L)) = L
        /\ rt[Len(L) + 1] = ProgramFile(steamruntime_helper, b.name)
        /\ \A i \in (Len(L) + 2)..Len(rt) : ~IsSeparator(rt[i])
        /\ b.cmd = b.layers.flatpak \o rt \o << <<"--">> >> \o b.args.proton
        /\ SubSeq(b.args.proton, 1, 3)
               = << <<"python3">>, protondir \o <<"proton">>, <<"run">> >>

(* C25: with sandboxing enabled the sandbox layer of the final command is exactly
   '<runtime dir>/run', one '--filesystem <path>' pair per element of the
   shared-path list in list order, the separator '--', the interpreter and the
   helper script path; the number of '--filesystem' flags equals the length of the
   list and every flag precedes the separator; the complete command is the outer
   layers, the helper options, a second '--' and the full Proton vector. *)
C25_SandboxLayerExact ==
    \A k \in 1..Len(builds) :
        (builds[k].fresh /\ builds[k].usr) =>
            SandboxLayerExact(builds[k]) /\ CompleteCommand(builds[k])

C25_Witness ==
    /\ builds # <<>>
    /\ builds[1].fresh /\ builds[1].usr
    /\ Len(builds[1].shared) >= 6
    /\ req.flatpak_steam /\ req.usr /\ ~req.without_bridge


----------------------------------------------------------------------------
(* The game-argument layer for varied game options *)

OptionTokens == {"", "-nointro", "-64bit"}
Backends == {"dx11", "gl"}

(* Args.game_options split at spaces: at least one piece, pieces may be empty *)
SplitOptions == UNION {[1..n -> OptionTokens] : n \in 1..MaxOpts}

OptionRequests ==
    {[Request(st, sp, FALSE, FALSE, <<NextMajor, 0>>, usr, 0, TRUE, 0, 0, desk, FALSE)
         EXCEPT !.game_options = o, !.rendering_backend = b] :
        st \in {"proton", "wine"}, sp \in BOOLEAN, usr \in BOOLEAN,
        desk \in Desktops, o \in SplitOptions, b \in Backends}

InitOptions ==
    /\ req \in OptionRequests
    /\ pc = "options"
    /\ InitCommon

(* StarterProton: __init__ fills the lists, run extends them *)
Options_proton ==
    /\ pc = "options"
    /\ req.starter = "proton"
    /\ \E name \in TempNames :
        LET usr == UseSteamRuntime(req)
            td == TempdirAfterSharedPaths(req, usr, "None", name)
            shared == determine_shared_paths(req, usr, name)
            a1 == init_args(EmptyArgs, req, usr, shared, td)
            a2 == [a1 EXCEPT !.proton = setup_proton_args(@, req, td)]
            a3 == [a2 EXCEPT !.steamrt = setup_helper_args(@, req, td)]
        IN  /\ use_steam_runtime' = usr
            /\ tempdir' = td
            /\ tempdirExists' = (td # "None")
            /\ tempfiles' = IF td = tempdir THEN tempfiles ELSE CopiedFiles(req, td)
            /\ args' = a3
            /\ cmd' = HelperArgs(a3)
    /\ pc' = "end"
    /\ UNCHANGED <<req, xrest, outcome, procs, mainp, helper_outcome, clock, trace,
                   builds, stops>>

(* StarterWine.run builds wine_args *)
Options_wine ==
    /\ pc = "options"
    /\ req.starter = "wine"
    /\ cmd' = WineArgs(req)
    /\ pc' = "end"
    /\ UNCHANGED <<req, xvars, outcome, use_steam_runtime, tempdir, tempdirExists, args,
                   procs, mainp, helper_outcome, clock, trace, builds, stops>>

NextOptions ==
    \/ Options_proton
    \/ Options_wine

SpecOptions == InitOptions /\ [][NextOptions]_vars

(* The game-argument layer that was built *)
GameArgs == IF req.starter = "proton" THEN args.proton ELSE cmd

(* Tokens ahead of the game: the runner, or wine and the virtual desktop *)
LeadLen ==
    IF req.starter = "proton" THEN 3
    ELSE IF req.wine_desktop # "" THEN 3 ELSE 1

TargetLen == IF req.singleplayer THEN 1 ELSE 3

KeptOptions == SelectSeq(req.game_options, LAMBDA o : o # "")

(* C26: in the game-argument layer '-rdevice' and the backend name directly follow
   the game executable (single-player) or the loader, the game directory and the
   mod directory (multiplayer), and precede every user-configured game option; the
   options keep their relative order and their empty tokens are dropped. *)
C26_BackendSelectorFirst ==
    pc = "end" =>
        LET v == GameArgs
            k == LeadLen + TargetLen
        IN  /\ Len(v) = k + 2 + Len(KeptOptions)
            /\ IF req.singleplayer
               THEN v[k] = gamedir \o <<"bin/win_x64", ExeName(req)>>
               ELSE v[k - 1] = gamedir /\ v[k] = moddir
            /\ v[k + 1] = <<"-rdevice">>
            /\ v[k + 2] = <<req.rendering_backend>>
            /\ \A i \in 1..Len(KeptOptions) : v[k + 2 + i] = <<KeptOptions[i]>>

C26_Witness ==
    /\ pc = "end"
    /\ req.starter = "proton" /\ ~req.singleplayer /\ req.usr
    /\ req.game_options = <<"-nointro", "", "-64bit">>
    /\ req.rendering_backend = "gl"
    /\ Len(GameArgs) = 10


----------------------------------------------------------------------------
(* The contents of the shared-path list *)

(* What the list of build b holds whatever the mode *)
SharedAlways(b) ==
    LET S == Range(b.shared)
    IN  /\ {gamedir, protondir, prefixdir, truckersmp_cli_data} \subseteq S
        /\ (moddir \in S) <=> ~req.singleplayer
        /\ (scriptdir \in S) # (\E n \in TempNames : <<n>> \in S)
        /\ (\E n \in TempNames : <<n>> \in S) <=> req.usr
        /\ req.usr => <<b.name>> \in S
        /\ Range(req.sockets) \subseteq S

LibrariesShared(b) == Range(get_steam_library_dirs(req)) \subseteq Range(b.shared)

(* C28: with sandboxing enabled the shared-path list contains the game, runner,
   prefix and program data directories, the mod directory iff the mode is
   multiplayer, the discovered Steam library directories iff the mode is
   single-player, exactly one of the script directory and the temporary sharing
   directory (the temporary one iff installed under '/usr/'), and every discovered
   presence-bridge socket path. *)
C28_SharedPathContents ==
    \A k \in 1..Len(builds) :
        builds[k].usr =>
            /\ SharedAlways(builds[k])
            /\ LibrariesShared(builds[k]) <=> req.singleplayer

(* C28 as amended: as above, but the Steam library directories are in the list iff
   the mode is single-player and Flatpak Steam is not used. *)
C28_LibrariesUnlessFlatpak ==
    \A k \in 1..Len(builds) :
        builds[k].usr =>
            /\ SharedAlways(builds[k])
            /\ LibrariesShared(builds[k]) <=> (req.singleplayer /\ ~req.flatpak_steam)

C28_Witness ==
    /\ builds # <<>>
    /\ builds[1].usr
    /\ req.singleplayer /\ req.flatpak_steam /\ req.usr
    /\ req.sockets # <<>>
    /\ ~LibrariesShared(builds[1])


----------------------------------------------------------------------------
(* set_wine_desktop_registry applied to any registry, any number of times *)

DesktopSizes == {"1024x768", "800x600"}

RegistryValues ==
    {<<regkey_explorer, "Desktop">>, <<regkey_desktops, "Default">>,
     <<regkey_desktops, "Second">>}

(* What the registry may hold before the launch *)
Registries ==
    UNION {[K -> DesktopSizes \cup {"Default"}] : K \in SUBSET RegistryValues}

InitRegistry ==
    /\ req \in [wine_desktop : DesktopSizes]
    /\ pc = "registry"
    /\ InitDetection
    /\ InitStarterFields
    /\ InitMainIdle
    /\ env = <<>>
    /\ penvs = <<>>
    /\ registry \in Registries
    /\ tempfiles = {}
    /\ pipe = NoPipe
    /\ dl = NoDownload
    /\ shared_paths = <<>>
    /\ spawned = <<>>

EnableEv == Ev("DESKTOP_ENABLE", "set_wine_desktop_registry")
DisableEv == Ev("DESKTOP_DISABLE", "set_wine_desktop_registry")

otherregistry ==
    <<req, pc, detectvars, mainvars, env, penvs, tempfiles, pipe, dl, shared_paths, outcome,
      use_steam_runtime, tempdir, tempdirExists, args, cmd, procs, mainp,
      helper_outcome, clock, builds, stops>>

(* set_wine_desktop_registry(prefix, wine, True) *)
Registry_enable ==
    /\ pc = "registry"
    /\ Len(trace) < MaxOps
    /\ Called(set_wine_desktop_registry(<<Tok("wine")>>, req.wine_desktop, TRUE))
    /\ Log(EnableEv)
    /\ UNCHANGED otherregistry

(* set_wine_desktop_registry(prefix, wine, False) *)
Registry_disable ==
    /\ pc = "registry"
    /\ Len(trace) < MaxOps
    /\ Called(set_wine_desktop_registry(<<Tok("wine")>>, req.wine_desktop, FALSE))
    /\ Log(DisableEv)
    /\ UNCHANGED otherregistry

NextRegistry ==
    \/ Registry_enable
    \/ Registry_disable

SpecRegistry == InitRegistry /\ [][NextRegistry]_vars

LastToggle == trace[Len(trace)]

Holds(value, data) == value \in DOMAIN registry /\ registry[value] = data

(* What the registry holds after a toggle *)
DesktopToggled ==
    /\ (trace # <<>> /\ LastToggle = EnableEv) =>
          /\ Holds(<<regkey_explorer, "Desktop">>, "Default")
          /\ Holds(<<regkey_desktops, "Default">>, req.wine_desktop)
    /\ (Len(trace) >= 2 /\ trace[Len(trace) - 1] = EnableEv /\ LastToggle = DisableEv) =>
          /\ <<regkey_explorer, "Desktop">> \notin DOMAIN registry
          /\ <<regkey_desktops, "Default">> \notin DOMAIN registry

(* Applying the toggle that was applied last changes nothing *)
SameToggleAgain ==
    (trace # <<>> /\ trace' = Append(trace, LastToggle)) => registry' = registry

(* C29: desktop-enable and desktop-disable are idempotent on the prefix registry:
   enable twice leaves the same registry as enable once (Explorer 'Desktop' =
   'Default' and Desktops 'Default' = the configured size), disable twice leaves
   the same registry as once, and after enable followed by disable both values
   are absent whatever the registry held before the launch. *)
C29_DesktopTogglesIdempotent == []DesktopToggled /\ [][SameToggleAgain]_vars

C29_Witness ==
    /\ Len(trace) = 3
    /\ trace[1] = EnableEv /\ trace[2] = EnableEv /\ trace[3] = DisableEv
    /\ <<regkey_desktops, "Second">> \in DOMAIN registry
    /\ <<regkey_explorer, "Desktop">> \notin DOMAIN registry
    /\ Len(spawned) = 6


----------------------------------------------------------------------------
(* get_steam_library_dirs on the current and the legacy manifest file *)

(* A manifest file: whether open() succeeds, and its lines *)
ManifestFile(ok, lines) == [ok |-> ok, lines |-> lines]

CurrentFiles == {ManifestFile(FALSE, <<>>)} \cup {ManifestFile(TRUE, m) : m \in Manifests}

LegacyFiles ==
    {ManifestFile(FALSE, <<>>), ManifestFile(TRUE, <<>>)}
    \cup {ManifestFile(TRUE, <<l>>) : l \in ManifestLines}

InitLibs ==
    /\ req \in [current : CurrentFiles, legacy : LegacyFiles]
    /\ pc = "libs_open"
    /\ InitCommon

(* The file the loop reads: the legacy one only if the current one cannot be opened *)
OpenedFile == IF req.current.ok THEN req.current ELSE req.legacy

otherlibs ==
    <<req, idlevars, spawned, outcome, use_steam_runtime, tempdir, tempdirExists, args,
      cmd, procs, mainp, helper_outcome, clock, trace, builds, stops>>

(* steam_libraries = [steamdir, ]; open(); the OSError of the second open() is
   caught and the list is returned *)
Libs_open ==
    /\ pc = "libs_open"
    /\ shared_paths' = <<steamdir>>
    /\ pc' = IF OpenedFile.ok THEN "libs_read" ELSE "end"
    /\ UNCHANGED otherlibs

(* for line in f_vdf: ...; return steam_libraries *)
Libs_read ==
    /\ pc = "libs_read"
    /\ shared_paths' = shared_paths \o ManifestLibraries(OpenedFile.lines)
    /\ pc' = "end"
    /\ UNCHANGED otherlibs

NextLibs ==
    \/ Libs_open
    \/ Libs_read

SpecLibs == InitLibs /\ [][NextLibs]_vars

(* A line the claim lets through: four quotes, a natural number or 'path' as the
   key, a path separator in the value *)
NamesLibrary(l) ==
    /\ l.quotes = 4
    /\ IsNatural(l.key) \/ l.key = PathKey
    /\ l.sep

ClaimedLibraries == SelectSeq(OpenedFile.lines, NamesLibrary)

(* C30: get_steam_library_dirs returns a list whose first element is the Steam
   installation directory, followed in file order by the value of every manifest
   line that has exactly four double quotes, whose key is a natural number or the
   literal 'path', and whose value contains a path separator; every other line is
   excluded; when neither manifest file can be opened the result is just the
   installation directory and no error propagates. *)
C30_LibraryDirsFromManifest ==
    pc = "end" =>
        /\ outcome = "running"
        /\ shared_paths[1] = steamdir
        /\ Tail(shared_paths) = [i \in 1..Len(ClaimedLibraries) |-> ClaimedLibraries[i].value]
        /\ (~req.current.ok /\ ~req.legacy.ok) => shared_paths = <<steamdir>>


----------------------------------------------------------------------------
(* is_d3dcompiler_setup_skippable *)

(* A file holding a version: whether it can be read and parsed, and the numbers *)
VersionFile(ok, major, minor) == [ok |-> ok, major |-> major, minor |-> minor]

VersionFiles ==
    {VersionFile(FALSE, 0, 0)}
    \cup {VersionFile(TRUE, ma, mi) : ma \in {MinMajor, NextMajor}, mi \in {0, 3, MinMinor}}

(* The dict that starts as major=0, minor=0 and is filled when the file parses *)
ReadVersion(f) ==
    IF f.ok THEN [major |-> f.major, minor |-> f.minor] ELSE [major |-> 0, minor |-> 0]

(* is_d3dcompiler_setup_skippable(): r.dll is whether check_hash finds the native
   DLL with the expected MD5, r.pfx the prefix's version file, r.proton the line
   CURRENT_PREFIX_VERSION of the proton script *)
is_d3dcompiler_setup_skippable(r) ==
    LET ver_pfx == ReadVersion(r.pfx)
        ver_proton == ReadVersion(r.proton)
    IN  IF ~r.dll THEN FALSE
        ELSE IF r.starter = "wine" THEN TRUE
        ELSE IF ver_pfx.major = 0 \/ ver_pfx.minor = 0 THEN FALSE
        ELSE IF ver_proton.major = 0 \/ ver_proton.minor = 0 THEN FALSE
        ELSE \/ ver_proton.major > ver_pfx.major
             \/ (ver_proton.major = ver_pfx.major /\ ver_proton.minor >= ver_pfx.minor)

D3dRequests ==
    [starter : {"proton", "wine"}, dll : BOOLEAN, pfx : VersionFiles,
     proton : VersionFiles, singleplayer : BOOLEAN, rendering_backend : Backends,
     activate_d3d : BOOLEAN]

InitD3d ==
    /\ req \in D3dRequests
    /\ pc = "d3d_check"
    /\ InitCommon

otherd3d ==
    <<req, xvars, outcome, use_steam_runtime, tempdir, tempdirExists, args, cmd, procs,
      mainp, helper_outcome, clock, builds, stops>>

Reported(b) == Ev("is_d3dcompiler_setup_skippable", IF b THEN "True" ELSE "False")

(* The call of is_d3dcompiler_setup_skippable, made when the option does not force
   the setup and the game is multiplayer with dx11 *)
D3d_skippable ==
    /\ pc = "d3d_check"
    /\ IF ~req.activate_d3d /\ ~req.singleplayer /\ req.rendering_backend = "dx11"
       THEN Log(Reported(is_d3dcompiler_setup_skippable(req)))
       ELSE UNCHANGED trace
    /\ pc' = "d3d_setup"
    /\ UNCHANGED otherd3d

(* activate_native_d3dcompiler_47 if do_d3dcompiler_setup *)
D3d_setup ==
    /\ pc = "d3d_setup"
    /\ IF do_d3dcompiler_setup(req, is_d3dcompiler_setup_skippable(req))
       THEN Log(Ev("D3D", "activate_native_d3dcompiler_47"))
       ELSE UNCHANGED trace
    /\ pc' = "end"
    /\ UNCHANGED otherd3d

NextD3d ==
    \/ D3d_skippable
    \/ D3d_setup

SpecD3d == InitD3d /\ [][NextD3d]_vars

(* The prefix version is at most the runner's, as pairs in lexicographic order *)
PrefixNotNewer ==
    /\ req.pfx.ok /\ req.proton.ok
    /\ LexGE(<<req.proton.major, req.proton.minor>>, <<req.pfx.major, req.pfx.minor>>)

(* C31: with Proton the native d3dcompiler setup is reported skippable exactly
   when the native DLL is present with the expected hash and the prefix version is
   at most the runner's CURRENT_PREFIX_VERSION in lexicographic order, for every
   pair of versions including those whose minor number is 0; with Wine exactly
   when the native DLL is present. *)
C31_SkippableExactlyWhen ==
    \A i \in 1..Len(trace) :
        trace[i].stage = "is_d3dcompiler_setup_skippable" =>
            (trace[i].step = "True") <=>
                (req.dll /\ (req.starter = "proton" => PrefixNotNewer))


----------------------------------------------------------------------------
(* The program files the command of a Proton launch refers to *)

ProgramNames == {"steamruntime_helper.py", "flatpak_helper.py", "truckersmp-cli.exe"}

(* The tokens of the built command that name a program file *)
ProgramRefs == {cmd[i] : i \in {j \in 1..Len(cmd) : cmd[j][Len(cmd[j])] \in ProgramNames}}

Sandboxed == use_steam_runtime \/ req.flatpak_steam

(* The references lie in shared directories, and in the temporary one if it exists *)
ProgramFilesShared ==
    (req.starter = "proton" /\ cmd # <<>> /\ Sandboxed) =>
        /\ steamruntime_helper[2] \in {f[Len(f)] : f \in ProgramRefs}
        /\ req.flatpak_steam => flatpak_helper[2] \in {f[Len(f)] : f \in ProgramRefs}
        /\ ~req.singleplayer => inject_exe[2] \in {f[Len(f)] : f \in ProgramRefs}
        /\ \A f \in ProgramRefs : Dirname(f) \in Range(shared_paths)
        /\ tempdir # "None" => \A f \in ProgramRefs : Dirname(f) = <<tempdir>>

(* When the command is executed, the copies it refers to are in place *)
CopiedBeforeExecuted ==
    (pc = "proton_popen" /\ spawned' # spawned /\ tempdir # "None") =>
        /\ tempdirExists
        /\ ProgramRefs \subseteq tempfiles

(* C33: whenever sandboxing is active, every program-owned file the built command
   refers to (the Steam Runtime helper script, the Flatpak helper script and in
   multiplayer the loader) lies inside a directory of the shared-path list; when
   the temporary sharing directory exists the command refers to the copies inside
   it and never to the originals, and every file it refers to inside the temporary
   directory has been copied there before the command is executed. *)
C33_ProgramFilesShared == []ProgramFilesShared /\ [][CopiedBeforeExecuted]_vars

C33_Witness ==
    /\ req.starter = "proton" /\ outcome = "done"
    /\ use_steam_runtime /\ req.flatpak_steam /\ ~req.singleplayer
    /\ tempdir # "None"
    /\ Cardinality(ProgramRefs) = 3
    /\ Len(spawned) > 0 /\ mainp.st = "exited"


----------------------------------------------------------------------------
(* The helpers of the Steam Runtime helper script run through the runner *)

(* [interpreter, path to the runner's 'proton' script, 'run'] *)
RunnerPrefix ==
    << (IF use_steam_runtime THEN <<"python3">> ELSE <<"sys.executable">>),
       protondir \o <<"proton">>, <<"run">> >>

(* The programs the launch wants started as helpers, early ones first *)
WantedHelpers ==
    (IF ~req.without_bridge /\ req.sockets # <<>> THEN <<ipcbridge>> ELSE <<>>)
    \o req.executables

(* C34: the Steam Runtime helper script starts every early and normal helper with
   the first three tokens of the trailing compatibility invocation as command
   prefix, and for every command the Proton starter builds those tokens are
   [interpreter, path to the runner's 'proton' script, 'run']; the main process is
   started with the full, unmodified trailing invocation. *)
C34_HelpersThroughRunner ==
    req.starter = "proton" =>
        /\ Len(procs) <= Len(WantedHelpers)
        /\ \A i \in 1..Len(procs) :
              /\ Len(procs[i].argv) = 4
              /\ SubSeq(procs[i].argv, 1, 3) = SubSeq(args.proton, 1, 3)
              /\ SubSeq(procs[i].argv, 1, 3) = RunnerPrefix
              /\ procs[i].argv[4] = WantedHelpers[i]
        /\ mainp.st \in {"running", "exited"} =>
              /\ mainp.argv = args.proton
              /\ SubSeq(cmd, Len(cmd) - Len(args.proton), Len(cmd))
                    = << <<"--">> >> \o mainp.argv
              /\ SubSeq(mainp.argv, 1, 3) = RunnerPrefix

C34_Witness ==
    /\ req.starter = "proton" /\ outcome = "done"
    /\ mainp.st = "exited"
    /\ Len(procs) = 1 + MaxExe
    /\ procs[1].kind = "early" /\ procs[2].kind = "normal"
    /\ ~use_steam_runtime /\ ~req.singleplayer


----------------------------------------------------------------------------
(* The helpers are stopped after the main process only *)

(* The stop loop has touched the helper: polled, killed or waited it *)
Stopped(p) == p.polled \/ p.kills > 0 \/ p.waited \/ p.st = "reaped"

ConfiguredHelpers == (IF BridgeConfigured(req) THEN 1 ELSE 0) + Len(req.executables)

ConfiguredDelays == (IF BridgeConfigured(req) THEN EarlyWait ELSE 0) + req.thirdparty_wait

(* C35: no helper process is killed by the launcher before the main process has
   exited: in the Wine starter and in the Steam Runtime helper script the stop
   step begins only after the wait on the main process has returned, and the main
   process is spawned only after all configured helper spawns and both delays have
   completed. *)
C35_StopAfterMainExit ==
    /\ \A i \in 1..Len(procs) : Stopped(procs[i]) => mainp.st = "exited"
    /\ pc \in {"helper_stop", "wine_cleanup"} => mainp.st = "exited"
    /\ mainp.st # "none" =>
          /\ Len(procs) = ConfiguredHelpers
          /\ clock >= ConfiguredDelays
    /\ MainSpawned => mainp.at >= ConfiguredDelays

C35_Witness ==
    /\ req.starter = "wine" /\ outcome = "done"
    /\ Len(procs) = 1 + MaxExe
    /\ \A i \in 1..Len(procs) : Stopped(procs[i])
    /\ procs[1].kills = 1 /\ procs[2].kills = 0
    /\ mainp.st = "exited" /\ mainp.code = 1


----------------------------------------------------------------------------
(* The output pipe of a Proton launch: StarterProton.run starts the helper script
   with stdout=PIPE, and the helpers the script starts inherit that pipe as their
   stdout.  pc is the position of the helper script; the launcher either forwards
   the pipe's lines (verbose) or only waits.  Failing spawns are left to Spec. *)

PipeRequests ==
    [starter : {"proton"}, verbose : BOOLEAN, executables : 0..MaxExe,
     descendants : BOOLEAN]

InitPipe ==
    /\ req \in PipeRequests
    /\ pc = "proton_popen"
    /\ InitDetection
    /\ InitStarterFields
    /\ InitMainIdle
    /\ env = <<>> /\ penvs = <<>> /\ registry = <<>> /\ tempfiles = {}
    /\ pipe = NoPipe
    /\ dl = NoDownload
    /\ shared_paths = <<>>
    /\ spawned = <<>>

otherpipe ==
    <<req, detectvars, mainvars, env, penvs, registry, tempfiles, dl, shared_paths, spawned,
      use_steam_runtime, tempdir, tempdirExists, args, cmd, clock, trace, builds, stops>>

(* The processes that hold the write end of the pipe *)
Writers ==
    {i \in 1..Len(procs) : procs[i].st = "running"}

ScriptHoldsPipe == helper_outcome = "running"

(* The read of 'for line in proc.stdout' returns end-of-file: nothing is buffered
   and no process holds the write end any more *)
PipeAtEof(p, script, writers) == p.buffered = 0 /\ ~script /\ writers = {}

(* run: subproc.Popen(helper_args, stdout=subproc.PIPE, stderr=subproc.STDOUT) *)
Pipe_popen ==
    /\ pc = "proton_popen"
    /\ helper_outcome' = "running"
    /\ pipe' = [buffered |-> 0, reader |-> IF req.verbose THEN "reading" ELSE "unread"]
    /\ pc' = "helper_normal"
    /\ UNCHANGED <<otherpipe, outcome, procs, mainp>>

(* start_thirdparty_programs: Popen(proton_run + [path], env=env, stderr=STDOUT);
   stdout is inherited *)
Pipe_helper_start ==
    /\ pc = "helper_normal"
    /\ NormalCount(procs) < req.executables
    /\ procs' = Append(procs, Spawn("normal", <<Executable(NormalCount(procs) + 1)>>, clock))
    /\ UNCHANGED <<otherpipe, pc, outcome, mainp, helper_outcome, pipe>>

(* The script's Popen of the game: its stdout is a pipe of the script's own
   (verbose) or DEVNULL *)
Pipe_main_start ==
    /\ pc = "helper_normal"
    /\ NormalCount(procs) = req.executables
    /\ mainp' = [NoMain EXCEPT !.st = "running"]
    /\ pc' = "helper_main_wait"
    /\ UNCHANGED <<otherpipe, outcome, procs, helper_outcome, pipe>>

(* The game exits and the script's with-block ends *)
Pipe_main_exit ==
    /\ pc = "helper_main_wait"
    /\ \E code \in ExitCodes : mainp' = Waited(mainp, code)
    /\ pc' = AfterMainExit(mainp'.code)
    /\ UNCHANGED <<otherpipe, outcome, procs, helper_outcome, pipe>>

(* The script's stop loop over the helpers it started, then the script exits *)
Pipe_script_stop ==
    /\ pc = "helper_stop"
    /\ procs' = [i \in 1..Len(procs) |->
                    IF procs[i].kind = "normal" THEN StopProc(procs[i]) ELSE procs[i]]
    /\ helper_outcome' = "done"
    /\ pc' = "proton_wait"
    /\ UNCHANGED <<otherpipe, outcome, mainp, pipe>>

(* A helper starts a process of its own (the Windows program, wineserver), which
   inherits the helper's stdout and is not a child of the script *)
Pipe_descendant ==
    /\ req.descendants
    /\ \E i \in 1..Len(procs) : procs[i].kind = "normal" /\ procs[i].st = "running"
    /\ \A i \in 1..Len(procs) : procs[i].kind # "descendant"
    /\ procs' = Append(procs, Spawn("descendant", <<Executable(1)>>, clock))
    /\ UNCHANGED <<otherpipe, pc, outcome, mainp, helper_outcome, pipe>>

(* A process that holds the pipe writes output; with the pipe full it blocks *)
Pipe_write ==
    /\ pipe.reader \in {"reading", "unread"}
    /\ ScriptHoldsPipe \/ Writers # {}
    /\ pipe.buffered < PipeCapacity
    /\ pipe' = [pipe EXCEPT !.buffered = @ + 1]
    /\ UNCHANGED <<otherpipe, pc, outcome, procs, mainp, helper_outcome>>

(* A helper or a descendant exits by itself *)
Pipe_writer_exits ==
    /\ \E i \in Writers : procs' = [procs EXCEPT ![i].st = "exited"]
    /\ UNCHANGED <<otherpipe, pc, outcome, mainp, helper_outcome, pipe>>

(* print_child_output: one line is read and printed, or the loop ends at
   end-of-file *)
Pipe_forward ==
    /\ pipe.reader = "reading"
    /\ IF pipe.buffered > 0
       THEN pipe' = [pipe EXCEPT !.buffered = @ - 1]
       ELSE /\ PipeAtEof(pipe, ScriptHoldsPipe, Writers)
            /\ pipe' = [pipe EXCEPT !.reader = "eof"]
    /\ UNCHANGED <<otherpipe, pc, outcome, procs, mainp, helper_outcome>>

(* proc.wait() returns when the helper script has exited; run goes on to its end *)
Pipe_wait ==
    /\ pc = "proton_wait"
    /\ pipe.reader \in {"unread", "eof"}
    /\ helper_outcome = "done"
    /\ pipe' = [pipe EXCEPT !.reader = "closed"]
    /\ outcome' = "done"
    /\ pc' = "end"
    /\ UNCHANGED <<otherpipe, procs, mainp, helper_outcome>>

PipeLauncher == Pipe_popen \/ Pipe_forward \/ Pipe_wait
PipeScript == Pipe_helper_start \/ Pipe_main_start \/ Pipe_script_stop

NextPipe ==
    \/ Pipe_popen
    \/ Pipe_helper_start
    \/ Pipe_main_start
    \/ Pipe_main_exit
    \/ Pipe_script_stop
    \/ Pipe_descendant
    \/ Pipe_write
    \/ Pipe_writer_exits
    \/ Pipe_forward
    \/ Pipe_wait

SpecPipe == InitPipe /\ [][NextPipe]_vars

(* The launcher and the helper script keep running; nothing is assumed about the
   game, the helpers' output or the processes the helpers start *)
SpecPipeFair == SpecPipe /\ WF_vars(PipeLauncher) /\ WF_vars(PipeScript)

(* C36: every launch eventually reaches its terminal state once the main process
   exits: neither the verbose output-forwarding loop nor the non-verbose wait on
   the main process blocks forever, regardless of how much output is written to
   the inherited output pipe and of whether a helper or its descendants keep that
   pipe open. *)
C36_LaunchTerminates == (mainp.st = "exited") ~> (outcome = "done")


----------------------------------------------------------------------------
(* update_mod and download_files.  dl.files is the caller's list dlfiles, which the
   outermost call changes in place; dl.stack holds the calls that follow a
   redirection, each with a list of its own; the server's answers are free. *)

DownloadHosts == <<"dlurl", "dlurlalt">>
RedirectHosts == {"mirror"}

(* What one request can end in: the file arrives with the expected or with another
   MD5, a status that is neither 200 nor a redirection, OSError or HTTPException,
   a redirection with or without a Location header *)
Responses == {"ok", "mismatch", "status", "oserror", "redirect", "nolocation"}

(* The lists update_mod can build: files in the order of the JSON file list *)
DownloadLists ==
    {l \in UNION {[1..n -> 1..MaxFiles] : n \in 0..MaxFiles} :
        \A i \in 1..Len(l), j \in 1..Len(l) : i < j => l[i] < l[j]}

InitDownload ==
    /\ req \in [starter : {"update"}]
    /\ pc = "update_mod"
    /\ InitDetection
    /\ InitStarterFields
    /\ InitMainIdle
    /\ env = <<>> /\ penvs = <<>> /\ registry = <<>> /\ tempfiles = {}
    /\ pipe = NoPipe
    /\ \E l \in DownloadLists : dl = [NoDownload EXCEPT !.files = l, !.original = l]
    /\ shared_paths = <<>>
    /\ spawned = <<>>

otherdownload ==
    <<req, detectvars, mainvars, env, penvs, registry, tempfiles, pipe, shared_paths, spawned,
      use_steam_runtime, tempdir, tempdirExists, args, cmd, procs, mainp, helper_outcome,
      clock, trace, builds, stops>>

(* The calls made to follow redirections that have not returned *)
Nesting(d) == Len(d.stack)

(* The arguments of the innermost call *)
files_to_download(d) ==
    IF Nesting(d) = 0 THEN d.files ELSE d.stack[Nesting(d)].files
host(d) ==
    IF Nesting(d) = 0 THEN d.host ELSE d.stack[Nesting(d)].host

(* As Deleted, but the last entry is the one removed *)
DeletedLast(d) ==
    LET files == files_to_download(d)
        rest == SubSeq(files, 1, Len(files) - 1)
    IN  IF Nesting(d) = 0
        THEN [d EXCEPT !.files = rest]
        ELSE [d EXCEPT !.stack[Nesting(d)].files = rest]

(* del files_to_download[0] in the innermost call *)
Deleted(d) ==
    IF Nesting(d) = 0
    THEN [d EXCEPT !.files = Tail(@)]
    ELSE [d EXCEPT !.stack[Nesting(d)].files = Tail(@)]

(* 'return False': every caller on the stack returns False in turn *)
ReturnedFalse(d) ==
    [d EXCEPT !.stack = <<>>, !.results = Append(@, FALSE)]

(* conn.request("GET", path) is sent for the first entry of the list *)
Requested(d) ==
    [d EXCEPT !.requests =
        Append(@, [host |-> host(d), file |-> Head(files_to_download(d)),
                   had |-> Head(files_to_download(d)) \in d.got,
                   nesting |-> Nesting(d)])]

(* update_mod: download_files(URL.dlurl, dlfiles) *)
UpdateMod_download ==
    /\ pc = "update_mod"
    /\ dl' = [dl EXCEPT !.host = DownloadHosts[1]]
    /\ pc' = "download_files"
    /\ UNCHANGED <<otherdownload, outcome>>

(* One pass of 'while len(files_to_download) > 0' that ends in 'del', in
   'return False', in a nested call or in an exception nothing catches *)
Download_request ==
    /\ pc = "download_files"
    /\ files_to_download(dl) # <<>>
    /\ \E res \in Responses :
        LET d == Requested(dl)
            f == Head(files_to_download(dl))
        IN  CASE res = "ok" ->
                   /\ dl' = Deleted([d EXCEPT !.got = @ \cup {f}])
                   /\ UNCHANGED <<pc, outcome>>
              [] res \in {"mismatch", "status", "oserror"} ->
                   /\ dl' = ReturnedFalse(d)
                   /\ pc' = "returned"
                   /\ UNCHANGED outcome
              [] res = "redirect" /\ Nesting(dl) < MaxNesting ->
                   /\ \E h \in RedirectHosts :
                        dl' = [d EXCEPT !.stack = Append(@, [host |-> h, files |-> <<f>>])]
                   /\ UNCHANGED <<pc, outcome>>
              [] res = "redirect" /\ Nesting(dl) >= MaxNesting ->
                   \* no call returns before the next is made and no connection is
                   \* closed: the interpreter's stack runs out (RecursionError, which
                   \* nothing catches) or the process's descriptors do (OSError)
                   \E stack_first \in BOOLEAN :
                        IF stack_first
                        THEN /\ dl' = [d EXCEPT !.stack = <<>>]
                             /\ outcome' = "crash"
                             /\ pc' = "end"
                        ELSE /\ dl' = ReturnedFalse(d)
                             /\ pc' = "returned"
                             /\ UNCHANGED outcome
              [] res = "nolocation" ->
                   \* urlparse(None) gives bytes, HTTPSConnection(b"") raises TypeError
                   /\ dl' = [d EXCEPT !.stack = <<>>]
                   /\ outcome' = "crash"
                   /\ pc' = "end"
    /\ UNCHANGED otherdownload

(* The list is empty: 'return True'; a caller that followed a redirection goes on
   with del files_to_download[0] *)
Download_return_true ==
    /\ pc = "download_files"
    /\ files_to_download(dl) = <<>>
    /\ IF Nesting(dl) = 0
       THEN /\ dl' = [dl EXCEPT !.results = Append(@, TRUE)]
            /\ pc' = "returned"
       ELSE /\ dl' = Deleted([dl EXCEPT !.stack = SubSeq(@, 1, Len(@) - 1)])
            /\ pc' = pc
    /\ UNCHANGED <<otherdownload, outcome>>

(* update_mod: 'if not download_files(URL.dlurl, dlfiles): if not
   download_files(URL.dlurlalt, dlfiles): sys.exit(...)' *)
UpdateMod_returned ==
    /\ pc = "returned"
    /\ IF dl.results[Len(dl.results)]
       THEN /\ outcome' = "done"
            /\ pc' = "end"
            /\ dl' = dl
       ELSE IF Len(dl.results) < Len(DownloadHosts)
       THEN /\ dl' = [dl EXCEPT !.host = DownloadHosts[Len(dl.results) + 1]]
            /\ pc' = "download_files"
            /\ outcome' = outcome
       ELSE /\ outcome' = "fatal"
            /\ pc' = "end"
            /\ dl' = dl
    /\ UNCHANGED otherdownload

NextDownload ==
    \/ UpdateMod_download
    \/ Download_request
    \/ Download_return_true
    \/ UpdateMod_returned

SpecDownload == InitDownload /\ [][NextDownload]_vars

(* The entries of the original list that have not been downloaded with a matching
   MD5, in their original order *)
NotYetDownloaded == SelectSeq(dl.original, LAMBDA f : f \notin dl.got)

(* A call has returned to update_mod *)
Returned == pc \in {"returned", "end"} /\ dl.results # <<>>

(* When download_files has returned, the list holds exactly the entries not yet
   downloaded; True is returned only with the list empty *)
ListAfterReturn ==
    Returned =>
        /\ dl.files = NotYetDownloaded
        /\ dl.results[Len(dl.results)] => dl.files = <<>>

(* While a call runs, the list is the original without the entries downloaded,
   except for the first one while the call that follows its redirection has
   downloaded it and not yet returned *)
ListWhileRunning ==
    pc = "download_files" =>
        \/ dl.files = NotYetDownloaded
        \/ Nesting(dl) > 0 /\ Tail(dl.files) = NotYetDownloaded

(* Requests are made in list order, for the first entry of the list, and never
   for a file that has been downloaded *)
RequestsInOrder ==
    /\ \A i \in 1..Len(dl.requests) : ~dl.requests[i].had
    /\ \A i \in 1..Len(dl.requests), j \in 1..Len(dl.requests) :
            i < j => dl.requests[i].file <= dl.requests[j].file

(* update_mod exits fatally exactly when both hosts failed *)
FatalWhenBothFail ==
    /\ outcome = "fatal" => dl.results = <<FALSE, FALSE>>
    /\ (pc = "end" /\ dl.results = <<FALSE, FALSE>>) => outcome = "fatal"

(* C37: download_files removes an entry from the caller's list exactly when that
   file has been downloaded with a matching MD5 (directly or through a redirect),
   processes entries in list order, and returns True only when the list has become
   empty; when it returns False the list holds exactly the entries not yet
   downloaded, in their original order, so that the retry against the failover
   host requests only those files, and update_mod exits fatally only if both hosts
   fail. *)
C37_ListTracksDownloads ==
    /\ ListAfterReturn
    /\ ListWhileRunning
    /\ RequestsInOrder
    /\ FatalWhenBothFail

(* The first host failed after a download, the failover host delivered the rest,
   one file through a redirection *)
C37_Witness ==
    /\ outcome = "done"
    /\ dl.results = <<FALSE, TRUE>>
    /\ Len(dl.original) = MaxFiles
    /\ \E i \in 1..Len(dl.requests) :
            dl.requests[i].file = 1 /\ dl.requests[i].nesting > 0
    /\ \E i \in 1..Len(dl.requests) : dl.requests[i].host = "dlurlalt"
    /\ \A i \in 1..Len(dl.requests) :
            dl.requests[i].host = "dlurlalt" => dl.requests[i].file = MaxFiles

(* C38: download_files terminates with a True or False result for every server
   behaviour, including a server that answers every request with a redirect: the
   nesting of redirect-following calls is bounded and no exception escapes the
   function. *)
C38_NoExceptionEscapes == outcome # "crash"

====
